---- MODULE Spec2Model ----
(***************************************************************************)
(* A model of the disk-backed B+ tree index of src/src/lib.rs              *)
(* (struct BPlusTree and its methods) driven as src/src/main.rs drives it. *)
(*                                                                         *)
(* The tree is modelled page by page.  A value "t" below is the BPlusTree  *)
(* struct together with its backing file:                                  *)
(*    t.mmap       the memory mapping, page index -> page                  *)
(*    t.file       the bytes that reached the file through a flush         *)
(*    t.root_page  the field root_page (-1: no root)                       *)
(*    t.num_pages  the field num_pages                                     *)
(*    t.panicked   TRUE once a Rust panic (index out of bounds, integer    *)
(*                 underflow) has aborted an operation                     *)
(* Every method of the source is an operator from t to t (or to a record   *)
(* [t, ret] when the method returns a value).  Arrays of the node structs  *)
(* are sequences holding the live prefix keys[0..num_keys] (children:      *)
(* [0..=num_keys]); no method reads a slot past the live prefix.  Indices  *)
(* are 0-based as in the source and shifted by one where a sequence is     *)
(* accessed.                                                               *)
(*                                                                         *)
(* The body of a method is written as a chain of operators, one per stage  *)
(* (find_leaf, find_leaf_loop, find_leaf_node, ...): a value the source    *)
(* computes once and uses several times, such as a node read from a page   *)
(* or the result of a search, is the parameter of the next operator.       *)
(*                                                                         *)
(* The node orders of the source (36 and 340, both even) are scaled down   *)
(* to 2*LeafHalf and 2*InternalHalf so that splits, borrows, merges and a  *)
(* tree of height three are reached by the model checker; every method     *)
(* depends on the orders only through LEAF_ORDER and INTERNAL_ORDER.       *)
(***************************************************************************)
EXTENDS Integers, Sequences, FiniteSets, TLC

(* ------------------------------ bounds -------------------------------- *)
LeafHalf == 2
InternalHalf == 1
MaxKey == 13
WrapStart == 5
NegKeys == 1
NumPayloads == 2
MaxOps == 2
SessionOps == 4
DrainKeys == 9
DrainOps == 10
LongOps == 2
MaxIoErrors == 2
NumThreads == 2
MaxFfiCalls == 3
FfiMaxKey == 2

(* ------------------------- program constants -------------------------- *)
LEAF_ORDER == 2 * LeafHalf
INTERNAL_ORDER == 2 * InternalHalf
\* the key that write_data / read_data / read_data_into short-circuit
HOOK_KEY == -5432
\* A 100-byte payload is identified by a number: 42 is special_data, the array
\* whose first byte is 42 and whose other bytes are 0, and 1..NumPayloads are
\* the payloads callers pass.
SPECIAL_DATA == 42
\* u64::MAX, the stored root of an empty tree.  2^64-1 exceeds the integers
\* of the model checker; the largest one stands for the all-ones word.
U64_MAX == 2147483646 + 1
INT_MAX == 2147483646 + 1
INT_MIN == (-2147483646) - 2

Some(v) == <<v>>
None == <<>>

(* ------------------------------ helpers ------------------------------- *)
InsertAt(s, pos, x) == SubSeq(s, 1, pos) \o <<x>> \o SubSeq(s, pos + 1, Len(s))
RemoveAt(s, pos) == SubSeq(s, 1, pos) \o SubSeq(s, pos + 2, Len(s))
NumPagesOf(f) == Cardinality(DOMAIN f)
Panic(t) == [t EXCEPT !.panicked = TRUE]

\* the index Rust's slice::binary_search_by arrives at for a sequence of
\* orderings ("Less" / "Equal" / "Greater") of the probes against the target:
\* [found |-> TRUE, idx] for Ok(idx), [found |-> FALSE, idx] for Err(idx)
RECURSIVE binary_search_loop(_, _, _)
binary_search_loop(ords, left, right) ==
    IF left >= right THEN [found |-> FALSE, idx |-> left]
    ELSE LET mid == left + ((right - left) \div 2)
         IN  IF ords[mid + 1] = "Less" THEN binary_search_loop(ords, mid + 1, right)
             ELSE IF ords[mid + 1] = "Greater" THEN binary_search_loop(ords, left, mid)
             ELSE [found |-> TRUE, idx |-> mid]

(* ------------------------------ node codec ---------------------------- *)
LeafNode_new ==
    [is_leaf |-> TRUE, keys |-> <<>>, data |-> <<>>, next_leaf |-> -1, prev_leaf |-> -1]

InternalNode_new ==
    [is_leaf |-> FALSE, keys |-> <<>>, children |-> <<-1>>]

\* a page of zero bytes, as File::set_len leaves it
ZeroPage == [layout |-> "zero", byte0 |-> 0]

LeafNode_to_bytes(node) ==
    [layout |-> "leaf", byte0 |-> IF node.is_leaf THEN 1 ELSE 0,
     keys |-> node.keys, data |-> node.data,
     next_leaf |-> node.next_leaf, prev_leaf |-> node.prev_leaf]

LeafNode_from_bytes(page) ==
    [is_leaf |-> page.byte0 = 1, keys |-> page.keys, data |-> page.data,
     next_leaf |-> page.next_leaf, prev_leaf |-> page.prev_leaf]

InternalNode_to_bytes(node) ==
    [layout |-> "internal", byte0 |-> IF node.is_leaf THEN 1 ELSE 0,
     keys |-> node.keys, children |-> node.children]

InternalNode_from_bytes(page) ==
    [is_leaf |-> page.byte0 = 1, keys |-> page.keys, children |-> page.children]

(* -------------------------------- pager ------------------------------- *)
get_page(t, page_num) == t.mmap[page_num]

is_leaf_page(t, page_num) == get_page(t, page_num).byte0 = 1

read_leaf_node(t, page_num) == LeafNode_from_bytes(get_page(t, page_num))

write_leaf_node(t, page_num, node) ==
    IF t.panicked THEN t
    ELSE IF page_num \in DOMAIN t.mmap
    THEN [t EXCEPT !.mmap[page_num] = LeafNode_to_bytes(node)]
    ELSE Panic(t)

read_internal_node(t, page_num) == InternalNode_from_bytes(get_page(t, page_num))

write_internal_node(t, page_num, node) ==
    IF t.panicked THEN t
    ELSE IF page_num \in DOMAIN t.mmap
    THEN [t EXCEPT !.mmap[page_num] = InternalNode_to_bytes(node)]
    ELSE Panic(t)

\* page 0 after write_metadata: the magic, the root as u64, the page count
write_metadata(t) ==
    [t EXCEPT !.mmap[0] =
        [layout |-> "meta", byte0 |-> 66, magic |-> "BPTREEv1",
         root |-> IF t.root_page < 0 THEN U64_MAX ELSE t.root_page,
         num_pages |-> t.num_pages]]

\* returns [t, ret]
read_metadata(t) ==
    IF t.mmap[0].layout # "meta" THEN [t |-> t, ret |-> FALSE]
    ELSE IF t.mmap[0].magic # "BPTREEv1" THEN [t |-> t, ret |-> FALSE]
    ELSE IF t.mmap[0].num_pages = 0 THEN [t |-> t, ret |-> FALSE]
    ELSE [t |-> [t EXCEPT !.num_pages = t.mmap[0].num_pages,
                          !.root_page = IF t.mmap[0].root = U64_MAX THEN -1
                                        ELSE t.mmap[0].root],
          ret |-> TRUE]

\* self.mmap.flush(): the bytes of the mapping reach the file
mmap_flush(t) ==
    [t EXCEPT !.file = [p \in DOMAIN t.file \cup DOMAIN t.mmap |->
                            IF p \in DOMAIN t.mmap THEN t.mmap[p] ELSE t.file[p]]]

\* file.set_len(pages * PAGE_SIZE) and the new mapping of the whole file
set_len_and_map(t, pages) ==
    [t EXCEPT !.file = [p \in 0..(pages - 1) |->
                           IF p \in DOMAIN t.file THEN t.file[p] ELSE ZeroPage],
              !.mmap = [p \in 0..(pages - 1) |->
                           IF p \in DOMAIN t.file THEN t.file[p] ELSE ZeroPage],
              !.num_pages = pages]

\* an ensure_file_size that maps the grown file without flushing the mapping
ensure_file_size_no_flush(t, pages) ==
    IF pages > NumPagesOf(t.mmap)
    THEN write_metadata(set_len_and_map(t, pages))
    ELSE t

ensure_file_size(t, pages) ==
    IF pages > NumPagesOf(t.mmap)
    THEN write_metadata(set_len_and_map(mmap_flush(t), pages))
    ELSE t

\* an allocate_page that hands out the last page of the file again
allocate_page_last(t) ==
    [t |-> write_metadata(ensure_file_size(t, t.num_pages)),
     ret |-> t.num_pages - 1]

\* returns [t, ret]
allocate_page(t) ==
    [t |-> write_metadata(ensure_file_size([t EXCEPT !.num_pages = t.num_pages + 1],
                                           t.num_pages + 1)),
     ret |-> t.num_pages]

\* The state ensure_file_size leaves behind when one of its `?` returns an
\* I/O error (pages > the mapped pages): at "flush" the flush of line 264
\* failed, at "map_empty" the empty mapping of line 266 could not be made (the
\* old mapping stays), at "set_len" the old mapping has been replaced by the
\* empty one and set_len failed, at "map" the file has grown and could not be
\* mapped.  num_pages is not assigned on any of them.
IoStages == {"flush", "map_empty", "set_len", "map"}

NoPages == [p \in {} |-> ZeroPage]

ensure_file_size_io_error(t, pages, stage) ==
    IF stage = "flush" THEN t
    ELSE IF stage = "map_empty" THEN mmap_flush(t)
    ELSE IF stage = "set_len" THEN [mmap_flush(t) EXCEPT !.mmap = NoPages]
    ELSE [mmap_flush(t) EXCEPT
             !.mmap = NoPages,
             !.file = [p \in 0..(pages - 1) |->
                          IF p \in DOMAIN t.mmap THEN t.mmap[p] ELSE ZeroPage]]

\* allocate_page returning the error of ensure_file_size: num_pages has been
\* incremented before the call
allocate_page_io_error(t, stage) ==
    ensure_file_size_io_error([t EXCEPT !.num_pages = t.num_pages + 1],
                              t.num_pages + 1, stage)

(* ------------------------------ descent ------------------------------- *)
\* the closure of find_leaf's binary_search_by: it never answers Equal
find_leaf_cmp(probe, key) ==
    IF probe <= key
    THEN IF probe = key THEN "Greater" ELSE "Less"
    ELSE "Greater"

\* Ok(idx) => idx + 1, Err(idx) => idx
find_leaf_arm(res) == IF res.found THEN res.idx + 1 ELSE res.idx

find_leaf_pos(keys, key) ==
    find_leaf_arm(binary_search_loop([i \in 1..Len(keys) |-> find_leaf_cmp(keys[i], key)],
                                     0, Len(keys)))

RECURSIVE find_leaf_loop(_, _, _)
find_leaf_child(t, child, key) ==
    IF child < 0 THEN None ELSE find_leaf_loop(t, child, key)

find_leaf_node(t, node, key) ==
    find_leaf_child(t, node.children[find_leaf_pos(node.keys, key) + 1], key)

find_leaf_loop(t, current_page, key) ==
    IF is_leaf_page(t, current_page) THEN Some(current_page)
    ELSE find_leaf_node(t, read_internal_node(t, current_page), key)

\* Option<usize>
find_leaf(t, key) ==
    IF t.root_page < 0 THEN None ELSE find_leaf_loop(t, t.root_page, key)

\* the for loop of find_parent over children[i..=num_keys] of one node:
\* [found, stack]
RECURSIVE find_parent_children(_, _, _, _, _)
find_parent_children(t, node, i, target_page, stack) ==
    IF i > Len(node.keys) THEN [found |-> FALSE, stack |-> stack]
    ELSE IF node.children[i + 1] < 0
    THEN find_parent_children(t, node, i + 1, target_page, stack)
    ELSE IF node.children[i + 1] = target_page THEN [found |-> TRUE, stack |-> stack]
    ELSE find_parent_children(t, node, i + 1, target_page,
             IF ~is_leaf_page(t, node.children[i + 1])
             THEN Append(stack, node.children[i + 1]) ELSE stack)

RECURSIVE find_parent_loop(_, _, _)
find_parent_visited(t, r, page, target_page) ==
    IF r.found THEN Some(page) ELSE find_parent_loop(t, r.stack, target_page)

find_parent_pop(t, page, rest, target_page) ==
    IF is_leaf_page(t, page) THEN find_parent_loop(t, rest, target_page)
    ELSE find_parent_visited(t, find_parent_children(t, read_internal_node(t, page), 0,
                                                     target_page, rest),
                             page, target_page)

find_parent_loop(t, stack, target_page) ==
    IF stack = <<>> THEN None
    ELSE find_parent_pop(t, stack[Len(stack)], SubSeq(stack, 1, Len(stack) - 1), target_page)

\* Option<usize>
find_parent(t, target_page) ==
    IF t.root_page < 0 \/ t.root_page = target_page THEN None
    ELSE find_parent_loop(t, <<t.root_page>>, target_page)

(* ------------------------------- insert ------------------------------- *)
\* a new-root block that changes root_page and does not write the metadata
new_root_install_unrecorded(t, new_root_page) ==
    IF t.panicked THEN t ELSE [t EXCEPT !.root_page = new_root_page]

\* the new-root blocks of write_data_internal and insert_into_parent: allocate
\* an internal page over (left_child, right_child) and make it the root
new_root_install(t, new_root_page) ==
    IF t.panicked THEN t ELSE write_metadata([t EXCEPT !.root_page = new_root_page])

new_root_write(a, node) == new_root_install(write_internal_node(a.t, a.ret, node), a.ret)

new_root(t, key, left_child, right_child) ==
    new_root_write(allocate_page(t),
                   [InternalNode_new EXCEPT !.keys = <<key>>,
                                            !.children = <<left_child, right_child>>])

\* slice.binary_search(&key): Ok(idx) and Err(idx) both give idx
insert_pos(keys, key) ==
    binary_search_loop([i \in 1..Len(keys) |->
                           IF keys[i] < key THEN "Less"
                           ELSE IF keys[i] = key THEN "Equal" ELSE "Greater"],
                       0, Len(keys)).idx

RECURSIVE insert_into_parent(_, _, _, _)
insert_into_parent_grand(t, grand, parent_page, promoted_key, new_page) ==
    IF grand # None
    THEN insert_into_parent(t, grand[1], promoted_key, new_page)
    ELSE new_root(t, promoted_key, parent_page, new_page)

insert_into_parent_promote(t, parent_page, promoted_key, new_page) ==
    IF t.panicked THEN t
    ELSE IF parent_page = t.root_page
    THEN new_root(t, promoted_key, parent_page, new_page)
    ELSE insert_into_parent_grand(t, find_parent(t, parent_page), parent_page,
                                  promoted_key, new_page)

insert_into_parent_right(a, parent_page, promoted_key, new_internal) ==
    insert_into_parent_promote(write_internal_node(a.t, a.ret, new_internal),
                               parent_page, promoted_key, a.ret)

\* a split that copies keys[mid] up and also keeps it as the first key of the
\* right half, as a leaf split does
insert_into_parent_split_copy_up(t, parent_page, parent, mid) ==
    insert_into_parent_right(
        allocate_page(write_internal_node(t, parent_page,
            [parent EXCEPT !.keys = SubSeq(parent.keys, 1, mid),
                           !.children = SubSeq(parent.children, 1, mid + 1)])),
        parent_page,
        parent.keys[mid + 1],
        [InternalNode_new EXCEPT
            !.keys = SubSeq(parent.keys, mid + 1, Len(parent.keys)),
            !.children = SubSeq(parent.children, mid + 2, Len(parent.keys) + 1)])

\* overflow -> split at mid = num_keys / 2
insert_into_parent_split(t, parent_page, parent, mid) ==
    insert_into_parent_right(
        allocate_page(write_internal_node(t, parent_page,
            [parent EXCEPT !.keys = SubSeq(parent.keys, 1, mid),
                           !.children = SubSeq(parent.children, 1, mid + 1)])),
        parent_page,
        parent.keys[mid + 1],
        [InternalNode_new EXCEPT
            !.keys = SubSeq(parent.keys, mid + 2, Len(parent.keys)),
            !.children = SubSeq(parent.children, mid + 2, Len(parent.keys) + 1)])

insert_into_parent_store(t, parent_page, parent) ==
    IF Len(parent.keys) <= INTERNAL_ORDER
    THEN write_internal_node(t, parent_page, parent)
    ELSE insert_into_parent_split(t, parent_page, parent, Len(parent.keys) \div 2)

insert_into_parent_at(t, parent_page, parent, pos, key, right_child_page) ==
    IF Len(parent.keys) > INTERNAL_ORDER THEN Panic(t)
    ELSE insert_into_parent_store(t, parent_page,
             [parent EXCEPT !.keys = InsertAt(parent.keys, pos, key),
                            !.children = InsertAt(parent.children, pos + 1,
                                                  right_child_page)])

insert_into_parent_node(t, parent_page, parent, key, right_child_page) ==
    insert_into_parent_at(t, parent_page, parent, insert_pos(parent.keys, key),
                          key, right_child_page)

insert_into_parent(t, parent_page, key, right_child_page) ==
    insert_into_parent_node(t, parent_page, read_internal_node(t, parent_page),
                            key, right_child_page)

\* first 0-based index i with keys[i] = key, or -1
index_of(keys, key) ==
    IF \E i \in 1..Len(keys) : keys[i] = key
    THEN (CHOOSE i \in 1..Len(keys) :
              keys[i] = key /\ \A j \in 1..(i - 1) : keys[j] # key) - 1
    ELSE -1

\* while pos < num_keys && keys[pos] < key { pos += 1 }
leaf_pos(keys, key) ==
    Cardinality({i \in 1..Len(keys) : \A j \in 1..i : keys[j] < key})

insert_into_leaf_relink(t, next_leaf, new_page) ==
    IF next_leaf >= 0
    THEN write_leaf_node(t, next_leaf,
             [read_leaf_node(t, next_leaf) EXCEPT !.prev_leaf = new_page])
    ELSE t

\* a leaf split that gives the new leaf the old leaf as its next_leaf
insert_into_leaf_split_linked_back(a, page_num, node, temp_keys, temp_data, mid) ==
    [t |-> write_leaf_node(
               write_leaf_node(
                   insert_into_leaf_relink(a.t, node.next_leaf, a.ret),
                   page_num,
                   [node EXCEPT !.keys = SubSeq(temp_keys, 1, mid),
                                !.data = SubSeq(temp_data, 1, mid),
                                !.next_leaf = a.ret]),
               a.ret,
               [LeafNode_new EXCEPT
                   !.keys = SubSeq(temp_keys, mid + 1, LEAF_ORDER + 1),
                   !.data = SubSeq(temp_data, mid + 1, LEAF_ORDER + 1),
                   !.next_leaf = page_num,
                   !.prev_leaf = page_num]),
     split |-> TRUE, split_key |-> temp_keys[mid + 1], new_page |-> a.ret]

\* split leaf: a is the allocation of the new page, temp_* the 37 entries
insert_into_leaf_split(a, page_num, node, temp_keys, temp_data, mid) ==
    [t |-> write_leaf_node(
               write_leaf_node(
                   insert_into_leaf_relink(a.t, node.next_leaf, a.ret),
                   page_num,
                   [node EXCEPT !.keys = SubSeq(temp_keys, 1, mid),
                                !.data = SubSeq(temp_data, 1, mid),
                                !.next_leaf = a.ret]),
               a.ret,
               [LeafNode_new EXCEPT
                   !.keys = SubSeq(temp_keys, mid + 1, LEAF_ORDER + 1),
                   !.data = SubSeq(temp_data, mid + 1, LEAF_ORDER + 1),
                   !.next_leaf = node.next_leaf,
                   !.prev_leaf = page_num]),
     split |-> TRUE, split_key |-> temp_keys[mid + 1], new_page |-> a.ret]

\* an insert_into_leaf that tests num_keys <= LEAF_ORDER before it inserts in
\* place, and so never splits
insert_into_leaf_at_full(t, page_num, node, pos, key, data) ==
    IF Len(node.keys) <= LEAF_ORDER
    THEN [t |-> write_leaf_node(t, page_num,
                    [node EXCEPT !.keys = InsertAt(node.keys, pos, key),
                                 !.data = InsertAt(node.data, pos, data)]),
          split |-> FALSE, split_key |-> 0, new_page |-> 0]
    ELSE insert_into_leaf_split(allocate_page(t), page_num, node,
                                InsertAt(node.keys, pos, key),
                                InsertAt(node.data, pos, data),
                                (LEAF_ORDER + 1) \div 2)

insert_into_leaf_at(t, page_num, node, pos, key, data) ==
    IF Len(node.keys) < LEAF_ORDER
    THEN [t |-> write_leaf_node(t, page_num,
                    [node EXCEPT !.keys = InsertAt(node.keys, pos, key),
                                 !.data = InsertAt(node.data, pos, data)]),
          split |-> FALSE, split_key |-> 0, new_page |-> 0]
    ELSE insert_into_leaf_split(allocate_page(t), page_num, node,
                                InsertAt(node.keys, pos, key),
                                InsertAt(node.data, pos, data),
                                (LEAF_ORDER + 1) \div 2)

insert_into_leaf_node(t, page_num, node, hit, key, data) ==
    IF hit >= 0
    THEN [t |-> write_leaf_node(t, page_num, [node EXCEPT !.data[hit + 1] = data]),
          split |-> FALSE, split_key |-> 0, new_page |-> 0]
    ELSE insert_into_leaf_at(t, page_num, node, leaf_pos(node.keys, key), key, data)

\* returns [t, split, split_key, new_page]
insert_into_leaf(t, page_num, key, data) ==
    insert_into_leaf_node(t, page_num, read_leaf_node(t, page_num),
                          index_of(read_leaf_node(t, page_num).keys, key), key, data)

write_data_parent(r, parent) ==
    IF parent # None
    THEN insert_into_parent(r.t, parent[1], r.split_key, r.new_page)
    ELSE new_root(r.t, r.split_key, r.t.root_page, r.new_page)

\* a write_data_internal that takes every split leaf for the root and puts a
\* new root over the old root and the new leaf
write_data_split_as_root(r, leaf_page) ==
    IF ~r.split THEN r.t
    ELSE new_root(r.t, r.split_key, r.t.root_page, r.new_page)

write_data_split(r, leaf_page) ==
    IF ~r.split THEN r.t
    ELSE IF leaf_page = r.t.root_page
    THEN new_root(r.t, r.split_key, r.t.root_page, r.new_page)
    ELSE write_data_parent(r, find_parent(r.t, leaf_page))

\* a write_data_internal answering false, which the source never does
write_data_result_false(t) == [t |-> t, ret |-> FALSE]

\* Ok(true), whichever branch insert_into_leaf took
write_data_result(t) == [t |-> t, ret |-> TRUE]

\* leaf_page is find_leaf(key).unwrap_or(root_page as usize): (-1) as usize
\* addresses no page, and reading it panics
write_data_leaf(t, leaf_page, key, data) ==
    IF leaf_page < 0 THEN [t |-> Panic(t), ret |-> FALSE]
    ELSE write_data_result(write_data_split(insert_into_leaf(t, leaf_page, key, data),
                                            leaf_page))

write_data_unwrap(t, found) == IF found # None THEN found[1] ELSE t.root_page

\* returns [t, ret]: ret is the bool of Ok(bool), and has no meaning once
\* t.panicked (the call did not return)
write_data_internal(t, key, data) ==
    write_data_leaf(t, write_data_unwrap(t, find_leaf(t, key)), key, data)

write_data(t, key, data) ==
    IF key = HOOK_KEY
    THEN write_data_internal(t, key, SPECIAL_DATA)
    ELSE write_data_internal(t, key, data)

\* write_data reaches the split branch of insert_into_leaf: the key is not in
\* its leaf and the leaf is full, so allocate_page is the first change it makes
write_data_splits_node(node, key) ==
    index_of(node.keys, key) < 0 /\ Len(node.keys) >= LEAF_ORDER

write_data_splits_leaf(t, key) ==
    /\ find_leaf(t, key) # None
    /\ write_data_splits_node(read_leaf_node(t, find_leaf(t, key)[1]), key)

\* write_data returning the I/O error of that allocate_page through the `?`
\* of insert_into_leaf and of write_data_internal
write_data_io_error(t, key, stage) == allocate_page_io_error(t, stage)

(* ------------------------------- lookup ------------------------------- *)
read_data_node(node, hit) == IF hit >= 0 THEN Some(node.data[hit + 1]) ELSE None

read_data_leaf(t, found, key) ==
    IF found = None THEN None
    ELSE read_data_node(read_leaf_node(t, found[1]),
                        index_of(read_leaf_node(t, found[1]).keys, key))

\* Option<Vec<u8>>: Some(payload) or None
read_data(t, key) ==
    IF key = HOOK_KEY THEN Some(SPECIAL_DATA)
    ELSE read_data_leaf(t, find_leaf(t, key), key)

(* ------------------------------- delete ------------------------------- *)
\* (LEAF_ORDER + 1) / 2 and (INTERNAL_ORDER + 1) / 2, integer division
min_keys == (LEAF_ORDER + 1) \div 2
min_internal == (INTERNAL_ORDER + 1) \div 2

\* the first 0-based i in lo..hi with children[i] = page, or -1
child_index(children, lo, hi, page) ==
    IF \E i \in lo..hi : children[i + 1] = page
    THEN CHOOSE i \in lo..hi :
             children[i + 1] = page /\ \A j \in lo..(i - 1) : children[j + 1] # page
    ELSE -1

\* ci is the index of child_page among children[1..=num_keys], or -1
update_parent_at(t, parent, pnode, ci, new_first_key) ==
    IF ci < 0 THEN t
    ELSE write_internal_node(t, parent, [pnode EXCEPT !.keys[ci] = new_first_key])

update_parent_node(t, parent, pnode, child_page, new_first_key) ==
    update_parent_at(t, parent, pnode,
                     child_index(pnode.children, 1, Len(pnode.keys), child_page),
                     new_first_key)

update_parent_found(t, parent, child_page, new_first_key) ==
    IF parent = None THEN t
    ELSE update_parent_node(t, parent[1], read_internal_node(t, parent[1]),
                            child_page, new_first_key)

update_parent_after_borrow(t, child_page, new_first_key) ==
    IF t.panicked THEN t
    ELSE update_parent_found(t, find_parent(t, child_page), child_page, new_first_key)

RECURSIVE delete_entry_from_parent_after_merge(_, _, _)
RECURSIVE rebalance_internal_after_delete(_, _)

\* a root collapse that takes the emptied root for an empty tree
delete_entry_written_no_root(t, parent_page, parent) ==
    IF t.panicked THEN t
    ELSE IF parent_page = t.root_page /\ Len(parent.keys) = 0
    THEN write_metadata([t EXCEPT !.root_page = -1])
    ELSE IF Len(parent.keys) < min_internal
    THEN rebalance_internal_after_delete(t, parent_page)
    ELSE t

\* parent is the node as written, one key and one child shorter
delete_entry_written(t, parent_page, parent) ==
    IF t.panicked THEN t
    ELSE IF parent_page = t.root_page /\ Len(parent.keys) = 0
    THEN write_metadata([t EXCEPT !.root_page =
                            IF parent.children[1] >= 0 THEN parent.children[1] ELSE -1])
    ELSE IF Len(parent.keys) < min_internal
    THEN rebalance_internal_after_delete(t, parent_page)
    ELSE t

\* a delete_entry_from_parent_after_merge that writes the shortened parent and
\* neither collapses the root nor rebalances
delete_entry_store_keep_root(t, parent_page, parent) ==
    write_internal_node(t, parent_page, parent)

delete_entry_store(t, parent_page, parent) ==
    delete_entry_written(write_internal_node(t, parent_page, parent), parent_page, parent)

\* ri = 0 removes keys[0] and children[0], ri > 0 keys[ri - 1] and children[ri];
\* on a node without keys the bound num_keys - 1 of the shifting loop underflows
delete_entry_at(t, parent_page, parent, ri) ==
    IF ri < 0 THEN t
    ELSE IF Len(parent.keys) = 0 THEN Panic(t)
    ELSE delete_entry_store(t, parent_page,
             [parent EXCEPT
                 !.keys = RemoveAt(parent.keys, IF ri = 0 THEN 0 ELSE ri - 1),
                 !.children = RemoveAt(parent.children, ri)])

delete_entry_node(t, parent_page, parent, removed_page) ==
    delete_entry_at(t, parent_page, parent,
                    child_index(parent.children, 0, Len(parent.keys), removed_page))

delete_entry_found(t, found, left_page, removed_page) ==
    IF found = None
    THEN IF t.root_page = removed_page
         THEN write_metadata([t EXCEPT !.root_page = left_page])
         ELSE t
    ELSE delete_entry_node(t, found[1], read_internal_node(t, found[1]), removed_page)

delete_entry_from_parent_after_merge(t, left_page, removed_page) ==
    IF t.panicked THEN t
    ELSE delete_entry_found(t, find_parent(t, removed_page), left_page, removed_page)

\* left sibling children[idx - 1]: borrow its last key through the parent, or
\* append the separator and cur to it
rebalance_internal_left(t, parent, pnode, internal_page, idx, left_page, left, cur) ==
    IF Len(left.keys) > min_internal
    THEN IF Len(cur.keys) > INTERNAL_ORDER THEN Panic(t)
         ELSE write_internal_node(
                  write_internal_node(
                      write_internal_node(t, left_page,
                          [left EXCEPT
                              !.keys = SubSeq(left.keys, 1, Len(left.keys) - 1),
                              !.children = SubSeq(left.children, 1, Len(left.keys))]),
                      internal_page,
                      [cur EXCEPT
                          !.keys = <<pnode.keys[idx]>> \o cur.keys,
                          !.children = <<left.children[Len(left.keys) + 1]>>
                                           \o cur.children]),
                  parent,
                  [pnode EXCEPT !.keys[idx] = left.keys[Len(left.keys)]])
    ELSE IF Len(left.keys) + 1 + Len(cur.keys) > INTERNAL_ORDER + 1 THEN Panic(t)
         ELSE delete_entry_from_parent_after_merge(
                  write_internal_node(t, left_page,
                      [left EXCEPT
                          !.keys = left.keys \o <<pnode.keys[idx]>> \o cur.keys,
                          !.children = left.children \o cur.children]),
                  left_page, internal_page)

\* right sibling children[idx + 1]: borrow its first key through the parent, or
\* append the separator and it to cur
rebalance_internal_right(t, parent, pnode, internal_page, idx, right_page, right, cur) ==
    IF Len(right.keys) > min_internal
    THEN IF Len(cur.keys) > INTERNAL_ORDER THEN Panic(t)
         ELSE write_internal_node(
                  write_internal_node(
                      write_internal_node(t, right_page,
                          [right EXCEPT
                              !.keys = SubSeq(right.keys, 2, Len(right.keys)),
                              !.children = SubSeq(right.children, 2,
                                                  Len(right.keys) + 1)]),
                      internal_page,
                      [cur EXCEPT !.keys = cur.keys \o <<pnode.keys[idx + 1]>>,
                                  !.children = cur.children \o <<right.children[1]>>]),
                  parent,
                  [pnode EXCEPT !.keys[idx + 1] = right.keys[1]])
    ELSE IF Len(cur.keys) + 1 + Len(right.keys) > INTERNAL_ORDER + 1 THEN Panic(t)
         ELSE delete_entry_from_parent_after_merge(
                  write_internal_node(t, internal_page,
                      [cur EXCEPT
                          !.keys = cur.keys \o <<pnode.keys[idx + 1]>> \o right.keys,
                          !.children = cur.children \o right.children]),
                  internal_page, right_page)

\* a child pointer of -1 cast to usize addresses no page
rebalance_internal_at(t, parent, pnode, internal_page, idx) ==
    IF idx < 0 THEN t
    ELSE IF idx > 0
    THEN IF pnode.children[idx] < 0 THEN Panic(t)
         ELSE rebalance_internal_left(t, parent, pnode, internal_page, idx,
                  pnode.children[idx],
                  read_internal_node(t, pnode.children[idx]),
                  read_internal_node(t, internal_page))
    ELSE IF idx < Len(pnode.keys)
    THEN IF pnode.children[idx + 2] < 0 THEN Panic(t)
         ELSE rebalance_internal_right(t, parent, pnode, internal_page, idx,
                  pnode.children[idx + 2],
                  read_internal_node(t, pnode.children[idx + 2]),
                  read_internal_node(t, internal_page))
    ELSE t

rebalance_internal_node(t, parent, pnode, internal_page) ==
    rebalance_internal_at(t, parent, pnode, internal_page,
                          child_index(pnode.children, 0, Len(pnode.keys), internal_page))

rebalance_internal_found(t, found, internal_page) ==
    IF found = None THEN t
    ELSE rebalance_internal_node(t, found[1], read_internal_node(t, found[1]),
                                 internal_page)

rebalance_internal_after_delete(t, internal_page) ==
    IF t.panicked THEN t
    ELSE IF internal_page = t.root_page THEN t
    ELSE rebalance_internal_found(t, find_parent(t, internal_page), internal_page)

\* borrow the last entry of the left neighbour in the leaf list
rebalance_leaf_borrow_left(t, leaf_page, node, left_page, left) ==
    update_parent_after_borrow(
        write_leaf_node(
            write_leaf_node(t, left_page,
                [left EXCEPT !.keys = SubSeq(left.keys, 1, Len(left.keys) - 1),
                             !.data = SubSeq(left.data, 1, Len(left.keys) - 1)]),
            leaf_page,
            [node EXCEPT !.keys = <<left.keys[Len(left.keys)]>> \o node.keys,
                         !.data = <<left.data[Len(left.keys)]>> \o node.data]),
        leaf_page, left.keys[Len(left.keys)])

\* borrow the first entry of the right neighbour; right.keys[0] after the shift
\* is the second key it had
rebalance_leaf_borrow_right(t, leaf_page, node, right_page, right) ==
    update_parent_after_borrow(
        write_leaf_node(
            write_leaf_node(t, right_page,
                [right EXCEPT !.keys = SubSeq(right.keys, 2, Len(right.keys)),
                              !.data = SubSeq(right.data, 2, Len(right.keys))]),
            leaf_page,
            [node EXCEPT !.keys = node.keys \o <<right.keys[1]>>,
                         !.data = node.data \o <<right.data[1]>>]),
        right_page, right.keys[2])

rebalance_leaf_relink(t, next_leaf, left_page) ==
    IF next_leaf >= 0
    THEN write_leaf_node(t, next_leaf,
             [read_leaf_node(t, next_leaf) EXCEPT !.prev_leaf = left_page])
    ELSE t

\* merge this leaf into the left neighbour
rebalance_leaf_merge_left(t, leaf_page, node, left_page, left) ==
    IF Len(left.keys) + Len(node.keys) > LEAF_ORDER THEN Panic(t)
    ELSE delete_entry_from_parent_after_merge(
             write_leaf_node(rebalance_leaf_relink(t, node.next_leaf, left_page),
                 left_page,
                 [left EXCEPT !.keys = left.keys \o node.keys,
                              !.data = left.data \o node.data,
                              !.next_leaf = node.next_leaf]),
             left_page, leaf_page)

\* merge the right neighbour into this leaf; the prev_leaf of the leaf after it
\* is assigned in a local copy (rn) that is never written
rebalance_leaf_merge_right(t, leaf_page, node, right_page, right) ==
    IF Len(node.keys) + Len(right.keys) > LEAF_ORDER THEN Panic(t)
    ELSE delete_entry_from_parent_after_merge(
             write_leaf_node(t, leaf_page,
                 [node EXCEPT !.keys = node.keys \o right.keys,
                              !.data = node.data \o right.data,
                              !.next_leaf = right.next_leaf]),
             leaf_page, right_page)

rebalance_leaf_node(t, leaf_page, node) ==
    IF Len(node.keys) >= min_keys THEN t
    ELSE IF node.prev_leaf >= 0
            /\ Len(read_leaf_node(t, node.prev_leaf).keys) > min_keys
    THEN rebalance_leaf_borrow_left(t, leaf_page, node, node.prev_leaf,
                                    read_leaf_node(t, node.prev_leaf))
    ELSE IF node.next_leaf >= 0
            /\ Len(read_leaf_node(t, node.next_leaf).keys) > min_keys
    THEN rebalance_leaf_borrow_right(t, leaf_page, node, node.next_leaf,
                                     read_leaf_node(t, node.next_leaf))
    ELSE IF node.prev_leaf >= 0
    THEN rebalance_leaf_merge_left(t, leaf_page, node, node.prev_leaf,
                                   read_leaf_node(t, node.prev_leaf))
    ELSE IF node.next_leaf >= 0
    THEN rebalance_leaf_merge_right(t, leaf_page, node, node.next_leaf,
                                    read_leaf_node(t, node.next_leaf))
    ELSE t

rebalance_leaf_after_delete(t, leaf_page) ==
    IF t.panicked THEN t
    ELSE rebalance_leaf_node(t, leaf_page, read_leaf_node(t, leaf_page))

\* a delete_data that flushes the mapping before it answers
delete_data_result_flushed(t) == [t |-> mmap_flush(t), ret |-> TRUE]

\* Ok(true) once the entry was found and removed
delete_data_result(t) == [t |-> t, ret |-> TRUE]

\* a delete_data that never calls the leaf rebalancer
delete_data_store_no_rebalance(t, leaf_page, node) ==
    delete_data_result(write_leaf_node(t, leaf_page, node))

\* node is the leaf without the entry
delete_data_store(t, leaf_page, node) ==
    delete_data_result(
        IF Len(node.keys) < min_keys
        THEN rebalance_leaf_after_delete(write_leaf_node(t, leaf_page, node), leaf_page)
        ELSE write_leaf_node(t, leaf_page, node))

\* a delete_data that flushes the mapping before it answers Ok(false)
delete_data_at_miss_flushes(t, leaf_page, node, idx) ==
    IF idx < 0 THEN [t |-> mmap_flush(t), ret |-> FALSE]
    ELSE delete_data_store(t, leaf_page,
             [node EXCEPT !.keys = RemoveAt(node.keys, idx),
                          !.data = RemoveAt(node.data, idx)])

delete_data_at(t, leaf_page, node, idx) ==
    IF idx < 0 THEN [t |-> t, ret |-> FALSE]
    ELSE delete_data_store(t, leaf_page,
             [node EXCEPT !.keys = RemoveAt(node.keys, idx),
                          !.data = RemoveAt(node.data, idx)])

delete_data_node(t, leaf_page, node, key) ==
    delete_data_at(t, leaf_page, node, index_of(node.keys, key))

delete_data_found(t, found, key) ==
    IF found = None THEN [t |-> t, ret |-> FALSE]
    ELSE delete_data_node(t, found[1], read_leaf_node(t, found[1]), key)

\* returns [t, ret]: ret is the bool of Ok(bool), and has no meaning once
\* t.panicked (the call did not return)
delete_data(t, key) == delete_data_found(t, find_leaf(t, key), key)

(* ----------------------------- range scan ----------------------------- *)
\* a scan loop that tests only keys[i] >= lower_key before it pushes
RECURSIVE scan_leaf_no_upper(_, _, _, _, _)
scan_leaf_no_upper(node, i, lower_key, upper_key, results) ==
    IF i > Len(node.keys) THEN [results |-> results, stop |-> FALSE]
    ELSE IF node.keys[i] >= lower_key
    THEN scan_leaf_no_upper(node, i + 1, lower_key, upper_key,
                            Append(results, node.data[i]))
    ELSE IF node.keys[i] > upper_key THEN [results |-> results, stop |-> TRUE]
    ELSE scan_leaf_no_upper(node, i + 1, lower_key, upper_key, results)

\* the for loop over one leaf: [results, stop], stop when a key > upper_key
RECURSIVE scan_leaf(_, _, _, _, _)
scan_leaf(node, i, lower_key, upper_key, results) ==
    IF i > Len(node.keys) THEN [results |-> results, stop |-> FALSE]
    ELSE IF node.keys[i] >= lower_key /\ node.keys[i] <= upper_key
    THEN scan_leaf(node, i + 1, lower_key, upper_key, Append(results, node.data[i]))
    ELSE IF node.keys[i] > upper_key THEN [results |-> results, stop |-> TRUE]
    ELSE scan_leaf(node, i + 1, lower_key, upper_key, results)

RECURSIVE read_range_loop(_, _, _, _, _)
read_range_scanned(t, r, next_leaf, lower_key, upper_key) ==
    IF r.stop THEN r.results
    ELSE read_range_loop(t, next_leaf, lower_key, upper_key, r.results)

read_range_node(t, node, lower_key, upper_key, results) ==
    read_range_scanned(t, scan_leaf(node, 1, lower_key, upper_key, results),
                       node.next_leaf, lower_key, upper_key)

read_range_loop(t, leaf_page, lower_key, upper_key, results) ==
    IF leaf_page < 0 THEN results
    ELSE read_range_node(t, read_leaf_node(t, leaf_page), lower_key, upper_key, results)

read_range_found(t, found, lower_key, upper_key) ==
    IF found = None THEN <<>>
    ELSE read_range_loop(t, found[1], lower_key, upper_key, <<>>)

read_range_data(t, lower_key, upper_key) ==
    read_range_found(t, find_leaf(t, lower_key), lower_key, upper_key)

(* ------------------------------ lifecycle ----------------------------- *)
flush(t) == mmap_flush(write_metadata(t))

\* impl Drop for BPlusTree
drop(t) == mmap_flush(t)

\* a missing or short file is set to the length of one page
new_sized(file) == IF NumPagesOf(file) < 1 THEN [p \in {0} |-> ZeroPage] ELSE file

new_tree(sized) ==
    [file |-> sized, mmap |-> sized, root_page |-> -1,
     num_pages |-> NumPagesOf(sized), panicked |-> FALSE]

\* a new() that sets the root and the page count in memory and leaves page 0
\* as ensure_file_size wrote it
new_finish_no_metadata(t) ==
    [t EXCEPT !.root_page = 1, !.num_pages = NumPagesOf(t.mmap)]

new_finish(t) ==
    write_metadata([t EXCEPT !.root_page = 1, !.num_pages = NumPagesOf(t.mmap)])

\* no valid metadata: an empty leaf at page 1 becomes the root
new_init(t) ==
    new_finish(write_leaf_node(IF t.num_pages < 2 THEN ensure_file_size(t, 2) ELSE t,
                               1, LeafNode_new))

new_loaded(t, m) == IF m.ret THEN m.t ELSE new_init(t)

new_open(t) == new_loaded(t, read_metadata(t))

\* BPlusTree::new() on a file holding `file` (the empty function: no file yet)
new(file) == new_open(new_tree(new_sized(file)))

(* ------------------------- the index and its driver ------------------- *)
VARIABLES
    mmap,       \* BPlusTree.mmap: page index -> page
    file,       \* the flushed bytes of bptree_index.dat
    root_page,  \* BPlusTree.root_page
    num_pages,  \* BPlusTree.num_pages
    panicked,   \* a panic aborted the last operation
    dir,        \* the order in which the driver's bulk load writes 1..MaxKey
    loaded,     \* keys written by the bulk load so far
    ops,        \* calls made after the bulk load
    expected,   \* key -> Some(payload last passed to write_data), or None when
                \* the key was never written or delete_data returned true for it
    erased,     \* the keys whose last write_data / delete_data was a delete_data
                \* that returned true
    last        \* the last call, what it returned, and whether `expected` held
                \* its key when it was made

\* the C interface: static TREE: Mutex<Option<BPlusTree>> and its callers
VARIABLES
    slot,       \* "None" / "Some": the Option in TREE; when "Some", the
                \* BPlusTree is the one the variables above hold
    lock,       \* the thread holding the mutex of TREE, 0 when it is free
    pc,         \* thread -> where it is inside an extern "C" function
    call,       \* thread -> the function it is in and its arguments
    installs    \* how many times a BPlusTree has been stored into TREE

ffi == <<slot, lock, pc, call, installs>>

vars == <<mmap, file, root_page, num_pages, panicked, dir, loaded, ops, expected,
          erased, last, slot, lock, pc, call, installs>>

Keys == {HOOK_KEY} \cup ((0 - NegKeys)..MaxKey)
Payloads == 1..NumPayloads
ScanEnds == {INT_MIN, 1, (MaxKey + 1) \div 2, MaxKey, INT_MAX}

\* The n-th key (from 0) of the bulk load.  "asc" is the loop of
\* test_bulk_insert; "wrap" is an ascending loop over the high keys followed
\* by one over the low keys, as main runs test_stress (10000..20000) and then
\* benchmark_operations (0..5000) on the same file; "desc" is the same keys
\* written downwards.
BulkKey(d, n) ==
    IF d = "asc" THEN n + 1
    ELSE IF d = "desc" THEN MaxKey - n
    ELSE ((n + WrapStart - 1) % MaxKey) + 1

\* the BPlusTree value the variables hold
Tree == [mmap |-> mmap, file |-> file, root_page |-> root_page,
         num_pages |-> num_pages, panicked |-> panicked]

SetTree(t) ==
    /\ mmap' = t.mmap
    /\ file' = t.file
    /\ root_page' = t.root_page
    /\ num_pages' = t.num_pages
    /\ panicked' = t.panicked

Call(op, key, val, ret, stored) ==
    [op |-> op, key |-> key, val |-> val, ret |-> ret, stored |-> stored]

Threads == 1..NumThreads

\* an extern "C" call: its function, its key (lower_key), its payload
\* (upper_key), and whether its pointer argument is null
FfiCall(fn, key, val, null) == [fn |-> fn, key |-> key, val |-> val, null |-> null]

\* static ref TREE = Mutex::new(None), with no thread inside the interface.
\* The drivers of main.rs own their BPlusTree and never touch TREE.
FfiStatic ==
    /\ slot = "None"
    /\ lock = 0
    /\ pc = [t \in Threads |-> "idle"]
    /\ call = [t \in Threads |-> FfiCall("none", 0, 0, FALSE)]
    /\ installs = 0

Init ==
    /\ \E t \in {new(<<>>)} :
           /\ mmap = t.mmap
           /\ file = t.file
           /\ root_page = t.root_page
           /\ num_pages = t.num_pages
           /\ panicked = t.panicked
    /\ dir \in {"asc", "desc", "wrap"}
    /\ loaded = 0
    /\ ops = 0
    /\ expected = [k \in Keys |-> None]
    /\ erased = {}
    /\ last = Call("new", 0, 0, <<>>, FALSE)
    /\ FfiStatic

\* tree.write_data(key, &data), and what the caller now expects of key
Put(key, data) ==
    \E r \in {write_data(Tree, key, data)} :
        /\ SetTree(r.t)
        /\ expected' = [expected EXCEPT ![key] = Some(data)]
        /\ erased' = erased \ {key}
        /\ last' = Call("write_data", key, data, <<r.ret>>, expected[key] # None)
        /\ UNCHANGED ffi

\* the loop of test_bulk_insert / test_stress: for i in a..b { write_data(i, ..) }
BulkInsert ==
    /\ ~panicked
    /\ ops = 0
    /\ loaded < MaxKey
    /\ Put(BulkKey(dir, loaded), 1)
    /\ loaded' = loaded + 1
    /\ UNCHANGED <<dir, ops>>

WriteData(key, data) ==
    /\ ~panicked
    /\ ops < MaxOps
    /\ Put(key, data)
    /\ ops' = ops + 1
    /\ UNCHANGED <<dir, loaded>>

DeleteData(key) ==
    /\ ~panicked
    /\ ops < MaxOps
    /\ \E r \in {delete_data(Tree, key)} :
           /\ SetTree(r.t)
           /\ expected' = IF r.ret THEN [expected EXCEPT ![key] = None] ELSE expected
           /\ erased' = IF r.ret THEN erased \cup {key} ELSE erased
           /\ last' = Call("delete_data", key, 0, <<r.ret>>, expected[key] # None)
    /\ ops' = ops + 1
    /\ UNCHANGED <<dir, loaded>>
    /\ UNCHANGED ffi

ReadData(key) ==
    /\ ~panicked
    /\ ops < MaxOps
    /\ last' = Call("read_data", key, 0, read_data(Tree, key), expected[key] # None)
    /\ ops' = ops + 1
    /\ UNCHANGED <<mmap, file, root_page, num_pages, panicked, dir, loaded, expected, erased>>
    /\ UNCHANGED ffi

ReadRangeData(lower_key, upper_key) ==
    /\ ~panicked
    /\ ops < MaxOps
    /\ last' = Call("read_range_data", lower_key, upper_key,
                    read_range_data(Tree, lower_key, upper_key), FALSE)
    /\ ops' = ops + 1
    /\ UNCHANGED <<mmap, file, root_page, num_pages, panicked, dir, loaded, expected, erased>>
    /\ UNCHANGED ffi

Flush ==
    /\ ~panicked
    /\ ops < MaxOps
    /\ SetTree(flush(Tree))
    /\ last' = Call("flush", 0, 0, <<>>, FALSE)
    /\ ops' = ops + 1
    /\ UNCHANGED <<dir, loaded, expected, erased>>
    /\ UNCHANGED ffi

\* the tree goes out of scope (Drop) and BPlusTree::new() opens the file again
Reopen ==
    /\ ops < MaxOps
    /\ SetTree(new(drop(Tree).file))
    /\ last' = Call("reopen", 0, 0, <<>>, FALSE)
    /\ ops' = ops + 1
    /\ UNCHANGED <<dir, loaded, expected, erased>>
    /\ UNCHANGED ffi

Next ==
    \/ BulkInsert
    \/ \E key \in Keys, data \in Payloads : WriteData(key, data)
    \/ \E key \in Keys : DeleteData(key)
    \/ \E key \in Keys : ReadData(key)
    \/ \E lower_key \in ScanEnds, upper_key \in ScanEnds : ReadRangeData(lower_key, upper_key)
    \/ Flush
    \/ Reopen

Spec == Init /\ [][Next]_vars

\* A longer session on a loaded index, as test_delete and test_update run
\* after the bulk tests on the same file: once the bulk load is complete, up
\* to SessionOps calls that put or erase one of the loaded keys.
SessionKeys == 1..MaxKey

SessionWrite(key) ==
    /\ ~panicked
    /\ loaded = MaxKey
    /\ ops < SessionOps
    /\ Put(key, 1)
    /\ ops' = ops + 1
    /\ UNCHANGED <<dir, loaded>>

SessionDelete(key) ==
    /\ ~panicked
    /\ loaded = MaxKey
    /\ ops < SessionOps
    /\ \E r \in {delete_data(Tree, key)} :
           /\ SetTree(r.t)
           /\ expected' = IF r.ret THEN [expected EXCEPT ![key] = None] ELSE expected
           /\ erased' = IF r.ret THEN erased \cup {key} ELSE erased
           /\ last' = Call("delete_data", key, 0, <<r.ret>>, expected[key] # None)
    /\ ops' = ops + 1
    /\ UNCHANGED <<dir, loaded>>
    /\ UNCHANGED ffi

NextSession ==
    \/ BulkInsert
    \/ \E key \in SessionKeys : SessionWrite(key)
    \/ \E key \in SessionKeys : SessionDelete(key)

SpecSession == Init /\ [][NextSession]_vars

\* A caller that erases what it loaded, as test_delete erases the keys it has
\* written: after a bulk load of at most DrainKeys keys, up to DrainOps calls
\* that erase a key the caller still holds.
DrainDelete(key) ==
    /\ ~panicked
    /\ loaded >= 1
    /\ loaded <= DrainKeys
    /\ ops < DrainOps
    /\ expected[key] # None
    /\ \E r \in {delete_data(Tree, key)} :
           /\ SetTree(r.t)
           /\ expected' = IF r.ret THEN [expected EXCEPT ![key] = None] ELSE expected
           /\ erased' = IF r.ret THEN erased \cup {key} ELSE erased
           /\ last' = Call("delete_data", key, 0, <<r.ret>>, expected[key] # None)
    /\ ops' = ops + 1
    /\ UNCHANGED <<dir, loaded>>
    /\ UNCHANGED ffi

NextDrain ==
    \/ BulkInsert
    \/ \E key \in SessionKeys : DrainDelete(key)

SpecDrain == Init /\ [][NextDrain]_vars

\* The bulk load carried over the negative keys as well, as main runs
\* test_negative_keys and the bulk tests on one file: the keys -NegKeys..MaxKey
\* in the order of dir, then up to LongOps erases.
LongKeys == (0 - NegKeys)..MaxKey

LongKey(d, n) ==
    IF d = "asc" THEN n - NegKeys
    ELSE IF d = "desc" THEN MaxKey - n
    ELSE ((n + WrapStart) % (MaxKey + NegKeys + 1)) - NegKeys

LongInsert ==
    /\ ~panicked
    /\ ops = 0
    /\ loaded < MaxKey + NegKeys + 1
    /\ Put(LongKey(dir, loaded), 1)
    /\ loaded' = loaded + 1
    /\ UNCHANGED <<dir, ops>>

LongDelete(key) ==
    /\ ~panicked
    /\ loaded = MaxKey + NegKeys + 1
    /\ ops < LongOps
    /\ \E r \in {delete_data(Tree, key)} :
           /\ SetTree(r.t)
           /\ expected' = IF r.ret THEN [expected EXCEPT ![key] = None] ELSE expected
           /\ erased' = IF r.ret THEN erased \cup {key} ELSE erased
           /\ last' = Call("delete_data", key, 0, <<r.ret>>, expected[key] # None)
    /\ ops' = ops + 1
    /\ UNCHANGED <<dir, loaded>>
    /\ UNCHANGED ffi

NextLong ==
    \/ LongInsert
    \/ \E key \in LongKeys : LongDelete(key)

SpecLong == Init /\ [][NextLong]_vars

\* The bulk load with I/O errors: up to MaxIoErrors puts of the load fail in
\* the page allocation of their leaf split; the caller sees Err and goes on
\* with the same key.  ops counts the failed puts.
IoInsert ==
    /\ ~panicked
    /\ NumPagesOf(mmap) > 0
    /\ loaded < MaxKey
    /\ Put(BulkKey(dir, loaded), 1)
    /\ loaded' = loaded + 1
    /\ UNCHANGED <<dir, ops>>

IoInsertFails(stage) ==
    /\ ~panicked
    /\ NumPagesOf(mmap) > 0
    /\ loaded < MaxKey
    /\ ops < MaxIoErrors
    /\ write_data_splits_leaf(Tree, BulkKey(dir, loaded))
    /\ SetTree(write_data_io_error(Tree, BulkKey(dir, loaded), stage))
    /\ last' = Call("write_data", BulkKey(dir, loaded), 1, <<>>, FALSE)
    /\ ops' = ops + 1
    /\ UNCHANGED <<dir, loaded, expected, erased>>
    /\ UNCHANGED ffi

\* with the empty mapping in place get_page slices out of range: the next
\* put panics in find_leaf
IoInsertPanics ==
    /\ ~panicked
    /\ NumPagesOf(mmap) = 0
    /\ loaded < MaxKey
    /\ SetTree(Panic(Tree))
    /\ last' = Call("write_data", BulkKey(dir, loaded), 1, <<>>, FALSE)
    /\ UNCHANGED <<dir, loaded, ops, expected, erased>>
    /\ UNCHANGED ffi

NextIo ==
    \/ IoInsert
    \/ \E stage \in IoStages : IoInsertFails(stage)
    \/ IoInsertPanics

SpecIo == Init /\ [][NextIo]_vars

\* Threads of a C program calling the extern "C" functions, MaxFfiCalls calls
\* in all.  Every function runs ensure_tree_initialized(), which takes the
\* mutex, fills the empty slot and drops the guard, then checks its pointer
\* argument, takes the mutex again, runs the tree operation and drops the
\* guard on return.  A step is what a thread does between two operations on
\* the mutex.
FfiKeys == 1..FfiMaxKey

FfiCalls ==
    {FfiCall("writeData", k, 1, n) : k \in FfiKeys, n \in BOOLEAN}
        \cup {FfiCall("readData", k, 0, FALSE) : k \in FfiKeys}
        \cup {FfiCall("readDataInto", k, 0, n) : k \in FfiKeys, n \in BOOLEAN}
        \cup {FfiCall("deleteData", k, 0, FALSE) : k \in FfiKeys}
        \cup {FfiCall("readRangeData", 1, FfiMaxKey, n) : n \in BOOLEAN}

\* the process starts with no BPlusTree and no index file
InitFfi ==
    /\ mmap = NoPages
    /\ file = NoPages
    /\ root_page = -1
    /\ num_pages = 0
    /\ panicked = FALSE
    /\ dir = "asc"
    /\ loaded = 0
    /\ ops = 0
    /\ expected = [k \in Keys |-> None]
    /\ erased = {}
    /\ last = Call("none", 0, 0, <<>>, FALSE)
    /\ FfiStatic

FfiEnter(t, c) ==
    /\ ~panicked
    /\ pc[t] = "idle"
    /\ ops < MaxFfiCalls
    /\ pc' = [pc EXCEPT ![t] = "init_wait"]
    /\ call' = [call EXCEPT ![t] = c]
    /\ ops' = ops + 1
    /\ UNCHANGED <<mmap, file, root_page, num_pages, panicked, dir, loaded,
                   expected, erased, last, slot, lock, installs>>

\* TREE.lock().unwrap() of ensure_tree_initialized
FfiInitLock(t) ==
    /\ ~panicked
    /\ pc[t] = "init_wait"
    /\ lock = 0
    /\ lock' = t
    /\ pc' = [pc EXCEPT ![t] = "init_locked"]
    /\ UNCHANGED <<mmap, file, root_page, num_pages, panicked, dir, loaded, ops,
                   expected, erased, last, slot, call, installs>>

\* if tree_guard.is_none() { *tree_guard = BPlusTree::new().ok(); }: new()
\* opens the index, or fails with an I/O error and the slot stays None
FfiInit(t) ==
    /\ ~panicked
    /\ pc[t] = "init_locked"
    /\ \/ /\ slot = "None"
          /\ SetTree(new(file))
          /\ slot' = "Some"
          /\ installs' = installs + 1
          /\ last' = Call("new", 0, 0, <<>>, FALSE)
       \/ /\ slot = "None"
          /\ UNCHANGED <<mmap, file, root_page, num_pages, panicked, slot, installs, last>>
       \/ /\ slot = "Some"
          /\ UNCHANGED <<mmap, file, root_page, num_pages, panicked, slot, installs, last>>
    /\ pc' = [pc EXCEPT ![t] = "init_done"]
    /\ UNCHANGED <<dir, loaded, ops, expected, erased, lock, call>>

\* the guard of ensure_tree_initialized is dropped; a null pointer argument
\* makes the function return before it locks again
FfiInitUnlock(t) ==
    /\ ~panicked
    /\ pc[t] = "init_done"
    /\ lock' = 0
    /\ pc' = [pc EXCEPT ![t] = IF call[t].null THEN "idle" ELSE "op_wait"]
    /\ UNCHANGED <<mmap, file, root_page, num_pages, panicked, dir, loaded, ops,
                   expected, erased, last, slot, call, installs>>

\* a lock() that does not wait for the mutex to be free
FfiOpLock_no_wait(t) ==
    /\ ~panicked
    /\ pc[t] = "op_wait"
    /\ lock' = t
    /\ pc' = [pc EXCEPT ![t] = "op_locked"]
    /\ UNCHANGED <<mmap, file, root_page, num_pages, panicked, dir, loaded, ops,
                   expected, erased, last, slot, call, installs>>

\* TREE.lock().unwrap() of the extern "C" function itself
FfiOpLock(t) ==
    /\ ~panicked
    /\ pc[t] = "op_wait"
    /\ lock = 0
    /\ lock' = t
    /\ pc' = [pc EXCEPT ![t] = "op_locked"]
    /\ UNCHANGED <<mmap, file, root_page, num_pages, panicked, dir, loaded, ops,
                   expected, erased, last, slot, call, installs>>

\* the else branch of `if let Some(..) = *tree_guard`: 0 or a null pointer
FfiNoTree(t) ==
    /\ ~panicked
    /\ pc[t] = "op_locked"
    /\ slot = "None"
    /\ pc' = [pc EXCEPT ![t] = "op_done"]
    /\ UNCHANGED <<mmap, file, root_page, num_pages, panicked, dir, loaded, ops,
                   expected, erased, last, slot, lock, call, installs>>

FfiWrite(t) ==
    /\ ~panicked
    /\ pc[t] = "op_locked"
    /\ slot = "Some"
    /\ call[t].fn = "writeData"
    /\ \E r \in {write_data(Tree, call[t].key, call[t].val)} :
           /\ SetTree(r.t)
           /\ expected' = [expected EXCEPT ![call[t].key] = Some(call[t].val)]
           /\ erased' = erased \ {call[t].key}
           /\ last' = Call("write_data", call[t].key, call[t].val, <<r.ret>>,
                           expected[call[t].key] # None)
    /\ pc' = [pc EXCEPT ![t] = "op_done"]
    /\ UNCHANGED <<dir, loaded, ops, slot, lock, call, installs>>

FfiDelete(t) ==
    /\ ~panicked
    /\ pc[t] = "op_locked"
    /\ slot = "Some"
    /\ call[t].fn = "deleteData"
    /\ \E r \in {delete_data(Tree, call[t].key)} :
           /\ SetTree(r.t)
           /\ expected' = IF r.ret THEN [expected EXCEPT ![call[t].key] = None]
                          ELSE expected
           /\ erased' = IF r.ret THEN erased \cup {call[t].key} ELSE erased
           /\ last' = Call("delete_data", call[t].key, 0, <<r.ret>>,
                           expected[call[t].key] # None)
    /\ pc' = [pc EXCEPT ![t] = "op_done"]
    /\ UNCHANGED <<dir, loaded, ops, slot, lock, call, installs>>

\* readData and readDataInto: read_data_into answers 1 where read_data
\* answers Some, with the same bytes
FfiRead(t) ==
    /\ ~panicked
    /\ pc[t] = "op_locked"
    /\ slot = "Some"
    /\ call[t].fn \in {"readData", "readDataInto"}
    /\ last' = Call("read_data", call[t].key, 0, read_data(Tree, call[t].key),
                    expected[call[t].key] # None)
    /\ pc' = [pc EXCEPT ![t] = "op_done"]
    /\ UNCHANGED <<mmap, file, root_page, num_pages, panicked, dir, loaded, ops,
                   expected, erased, slot, lock, call, installs>>

FfiRange(t) ==
    /\ ~panicked
    /\ pc[t] = "op_locked"
    /\ slot = "Some"
    /\ call[t].fn = "readRangeData"
    /\ last' = Call("read_range_data", call[t].key, call[t].val,
                    read_range_data(Tree, call[t].key, call[t].val), FALSE)
    /\ pc' = [pc EXCEPT ![t] = "op_done"]
    /\ UNCHANGED <<mmap, file, root_page, num_pages, panicked, dir, loaded, ops,
                   expected, erased, slot, lock, call, installs>>

\* the function returns and its guard is dropped
FfiReturn(t) ==
    /\ ~panicked
    /\ pc[t] = "op_done"
    /\ lock' = 0
    /\ pc' = [pc EXCEPT ![t] = "idle"]
    /\ UNCHANGED <<mmap, file, root_page, num_pages, panicked, dir, loaded, ops,
                   expected, erased, last, slot, call, installs>>

NextFfi ==
    \/ \E t \in Threads, c \in FfiCalls : FfiEnter(t, c)
    \/ \E t \in Threads : FfiInitLock(t)
    \/ \E t \in Threads : FfiInit(t)
    \/ \E t \in Threads : FfiInitUnlock(t)
    \/ \E t \in Threads : FfiOpLock(t)
    \/ \E t \in Threads : FfiNoTree(t)
    \/ \E t \in Threads : FfiWrite(t)
    \/ \E t \in Threads : FfiDelete(t)
    \/ \E t \in Threads : FfiRead(t)
    \/ \E t \in Threads : FfiRange(t)
    \/ \E t \in Threads : FfiReturn(t)

SpecFfi == InitFfi /\ [][NextFfi]_vars

(* ------------------------------ observers ----------------------------- *)
\* The leaf pages and the internal pages of the subtree at page, following
\* child pointers for at most d levels (a tree of n pages has at most n levels).
IsNodePage(t, page) ==
    /\ page \in DOMAIN t.mmap
    /\ t.mmap[page].layout \in {"leaf", "internal"}

RECURSIVE subtree_leaves(_, _, _)
subtree_leaves(t, page, d) ==
    IF d = 0 \/ ~IsNodePage(t, page) THEN {}
    ELSE IF is_leaf_page(t, page) THEN {page}
    ELSE UNION {subtree_leaves(t, read_internal_node(t, page).children[i], d - 1) :
                    i \in 1..Len(read_internal_node(t, page).children)}

RECURSIVE subtree_internals(_, _, _)
subtree_internals(t, page, d) ==
    IF d = 0 \/ ~IsNodePage(t, page) THEN {}
    ELSE IF is_leaf_page(t, page) THEN {}
    ELSE {page} \cup
         UNION {subtree_internals(t, read_internal_node(t, page).children[i], d - 1) :
                    i \in 1..Len(read_internal_node(t, page).children)}

\* the keys stored in the leaves of the subtree at page
subtree_keys(t, page) ==
    UNION {{read_leaf_node(t, p).keys[i] : i \in 1..Len(read_leaf_node(t, p).keys)} :
               p \in subtree_leaves(t, page, t.num_pages)}

\* the entries <<leaf page, slot>> of the tree, and those holding key
tree_entries(t) ==
    UNION {{<<p, i>> : i \in 1..Len(read_leaf_node(t, p).keys)} :
               p \in subtree_leaves(t, t.root_page, t.num_pages)}

key_entries(t, key) == {e \in tree_entries(t) : read_leaf_node(t, e[1]).keys[e[2]] = key}

\* the payloads exp holds for the keys of S, in ascending key order
RECURSIVE asc_payloads(_, _)
asc_payloads(exp, S) ==
    IF S = {} THEN <<>>
    ELSE <<exp[CHOOSE k \in S : \A j \in S : k <= j][1]>>
             \o asc_payloads(exp, S \ {CHOOSE k \in S : \A j \in S : k <= j})

(* ----------------------- properties of the index --------------------- *)
\* C1: put(k, v) immediately followed by get(k) returns exactly v, for every
\* key (negative keys included) and payload, also when the put splits a leaf:
\* in the state a write_data(k, v) leaves, read_data(k) is Some(v).
C1_PutThenGetReturnsPayload ==
    (last.op = "write_data" /\ ~panicked) => read_data(Tree, last.key) = Some(last.val)

\* C2: for two distinct keys k and k2, put(k2, v) and erase(k2) do not change
\* the result of get(k), in any reachable state.
C2_put_frame(t, k, k2, v) == read_data(write_data(t, k2, v).t, k) = read_data(t, k)

C2_erase_frame(t, k, k2) == read_data(delete_data(t, k2).t, k) = read_data(t, k)

C2_OtherKeysLeaveGetUnchanged ==
    ~panicked =>
        \A k \in Keys, k2 \in Keys :
            k # k2 => /\ \A v \in Payloads : C2_put_frame(Tree, k, k2, v)
                      /\ C2_erase_frame(Tree, k, k2)

\* C3: get(k) returns None for every key that was never put or whose last
\* operation was a successful erase, and no key yields a payload that no put
\* stored.
C3_AbsentKeysAreNotFound ==
    ~panicked =>
        \A k \in Keys :
            /\ expected[k] = None => read_data(Tree, k) = None
            /\ read_data(Tree, k) \in {None} \cup {Some(v) : v \in Payloads}

\* C4: put(k, v1); put(k, v2); get(k) returns v2, the tree then holds exactly
\* one entry for k, and the second put does not add an entry.
C4_after_second(t1, t2, k, v2) ==
    /\ read_data(t2, k) = Some(v2)
    /\ Cardinality(key_entries(t2, k)) = 1
    /\ Cardinality(tree_entries(t2)) = Cardinality(tree_entries(t1))

C4_after_first(t1, k, v2) == C4_after_second(t1, write_data(t1, k, v2).t, k, v2)

C4_SecondPutOverwritesInPlace ==
    ~panicked =>
        \A k \in Keys, v1 \in Payloads, v2 \in Payloads :
            C4_after_first(write_data(Tree, k, v1).t, k, v2)

\* C5: put(k, v); erase(k) returns Removed (true), the following get(k) returns
\* None, and a second erase(k) returns NotFound (false), in any reachable state.
C5_after_erase(d, k) ==
    /\ d.ret = TRUE
    /\ read_data(d.t, k) = None
    /\ delete_data(d.t, k).ret = FALSE

C5_PutEraseGetErase ==
    ~panicked =>
        \A k \in Keys, v \in Payloads :
            C5_after_erase(delete_data(write_data(Tree, k, v).t, k), k)

\* C6: scan(lo, hi) with lo <= hi returns exactly one payload per stored key
\* in [lo, hi], the latest put for it, in ascending key order;
\* scan(INT_MIN, INT_MAX) lists the whole tree.
C6_ScanReturnsStoredRange ==
    ~panicked =>
        \A lo \in ScanEnds, hi \in ScanEnds :
            lo <= hi =>
                read_range_data(Tree, lo, hi) =
                    asc_payloads(expected,
                                 {k \in Keys : expected[k] # None /\ lo <= k /\ k <= hi})

\* C7: after flush, close and reopen, the index has the same root page and
\* page count, opening modified no page, get returns the payload of every key
\* put and not erased, and get returns None for every erased key.
C7_opened(t, closed, r) ==
    /\ r.root_page = t.root_page
    /\ r.num_pages = t.num_pages
    /\ r.mmap = closed
    /\ r.file = closed
    /\ \A k \in Keys : expected[k] # None => read_data(r, k) = expected[k]
    /\ \A k \in erased : read_data(r, k) = None

C7_closed(t, closed) == C7_opened(t, closed, new(closed))

C7_FlushReopenPreserves ==
    ~panicked => C7_closed(Tree, drop(flush(Tree)).file)

\* C8 (as amended): put returns the same result, true, whether the key was
\* stored before the call or not.
C8_PutAlwaysReturnsTrue ==
    (last.op = "write_data" /\ ~panicked) => last.ret = <<TRUE>>

\* C8 witness: a put on a key that was stored before the call has returned
\* true and overwritten the payload.
C8_UpdateReturnedTrue ==
    /\ last.op = "write_data"
    /\ ~panicked
    /\ last.stored
    /\ last.key # HOOK_KEY
    /\ last.ret = <<TRUE>>
    /\ read_data(Tree, last.key) = Some(last.val)

\* C8 (as stated): the result of put tells a key that was not stored before
\* the call (Inserted) from one that was (Updated): the two results differ.
C8_PutResultDistinguishes ==
    ~panicked =>
        \A k1 \in Keys, k2 \in Keys, v \in Payloads :
            (expected[k1] # None /\ expected[k2] = None) =>
                write_data(Tree, k1, v).ret # write_data(Tree, k2, v).ret

\* C9: erase(k) returns Removed (true) exactly when k is stored (was put and not
\* erased since), and NotFound (false) exactly when it is not.
C9_EraseReportsStored ==
    (last.op = "delete_data" /\ ~panicked) => last.ret = <<last.stored>>

\* C10: after every completed put or erase, for every separator keys[i] of
\* every internal node reachable from the root, every key in the subtree at
\* children[i] is < keys[i] and every key in the subtree at children[i+1] is
\* >= keys[i].
C10_separator(t, node, i) ==
    /\ \A k \in subtree_keys(t, node.children[i]) : k < node.keys[i]
    /\ \A k \in subtree_keys(t, node.children[i + 1]) : k >= node.keys[i]

C10_SeparatorsBoundSubtrees ==
    ~panicked =>
        \A p \in subtree_internals(Tree, root_page, num_pages) :
            \A i \in 1..Len(read_internal_node(Tree, p).keys) :
                C10_separator(Tree, read_internal_node(Tree, p), i)


(* --------------------- the leaf list and the tree shape --------------- *)
\* the keys callers have put and not erased
stored_keys == {k \in Keys : expected[k] # None}

StrictlyAscending(s) == \A i \in 1..(Len(s) - 1) : s[i] < s[i + 1]

StrictlyDescending(s) == \A i \in 1..(Len(s) - 1) : s[i] > s[i + 1]

Reverse(s) == [i \in 1..Len(s) |-> s[Len(s) + 1 - i]]

SeqSet(s) == {s[i] : i \in 1..Len(s)}

\* the least integer >= n / 2
ceil_half(n) == (n + 1) \div 2

\* the elements of S in ascending order
RECURSIVE asc_keys(_)
asc_keys(S) ==
    IF S = {} THEN <<>>
    ELSE <<CHOOSE k \in S : \A j \in S : k <= j>>
             \o asc_keys(S \ {CHOOSE k \in S : \A j \in S : k <= j})

IsLeaf(t, page) == IsNodePage(t, page) /\ is_leaf_page(t, page)

\* the leaf that a descent along children[0] (along the last child) ends at,
\* or -1 when the descent leaves the node pages
RECURSIVE leftmost_leaf(_, _, _)
leftmost_leaf(t, page, d) ==
    IF d = 0 \/ ~IsNodePage(t, page) THEN -1
    ELSE IF is_leaf_page(t, page) THEN page
    ELSE leftmost_leaf(t, read_internal_node(t, page).children[1], d - 1)

RECURSIVE rightmost_leaf(_, _, _)
rightmost_leaf(t, page, d) ==
    IF d = 0 \/ ~IsNodePage(t, page) THEN -1
    ELSE IF is_leaf_page(t, page) THEN page
    ELSE rightmost_leaf(t, read_internal_node(t, page).children[
                               Len(read_internal_node(t, page).children)], d - 1)

\* the pages visited from page by following next_leaf (prev_leaf), at most d
\* of them; a page that is not a leaf is listed and ends the walk
RECURSIVE next_walk(_, _, _)
next_walk(t, page, d) ==
    IF d = 0 \/ page < 0 THEN <<>>
    ELSE IF ~IsLeaf(t, page) THEN <<page>>
    ELSE <<page>> \o next_walk(t, read_leaf_node(t, page).next_leaf, d - 1)

RECURSIVE prev_walk(_, _, _)
prev_walk(t, page, d) ==
    IF d = 0 \/ page < 0 THEN <<>>
    ELSE IF ~IsLeaf(t, page) THEN <<page>>
    ELSE <<page>> \o prev_walk(t, read_leaf_node(t, page).prev_leaf, d - 1)

\* the keys of the leaves of pages, in the order of the walk, each leaf read
\* forwards (fwd) or backwards
RECURSIVE walk_keys(_, _, _)
walk_keys(t, pages, fwd) ==
    IF pages = <<>> THEN <<>>
    ELSE (IF ~IsLeaf(t, Head(pages)) THEN <<>>
          ELSE IF fwd THEN read_leaf_node(t, Head(pages)).keys
          ELSE Reverse(read_leaf_node(t, Head(pages)).keys))
         \o walk_keys(t, Tail(pages), fwd)

\* the depths at which descents from page end at a leaf; -1 stands for a
\* descent that reaches a page that is no node, or does not end within d levels
RECURSIVE tree_depths(_, _, _)
tree_depths(t, page, d) ==
    IF d = 0 \/ ~IsNodePage(t, page) THEN {-1}
    ELSE IF is_leaf_page(t, page) THEN {0}
    ELSE {IF x < 0 THEN -1 ELSE x + 1 :
              x \in UNION {tree_depths(t, read_internal_node(t, page).children[i], d - 1) :
                               i \in 1..Len(read_internal_node(t, page).children)}}

\* every <<internal page, slot>> of the tree, a slot being a child pointer
child_slots(t) ==
    UNION {{<<p, i>> : i \in 1..Len(read_internal_node(t, p).children)} :
               p \in subtree_internals(t, t.root_page, t.num_pages)}

\* the leaf (internal) pages of the mapping that the tree no longer reaches
dead_leaves(t) ==
    {q \in DOMAIN t.mmap : t.mmap[q].layout = "leaf"}
        \ subtree_leaves(t, t.root_page, t.num_pages)

dead_internals(t) ==
    {q \in DOMAIN t.mmap : t.mmap[q].layout = "internal"}
        \ subtree_internals(t, t.root_page, t.num_pages)

(* ------------------------- pages and allocation ----------------------- *)
\* the index after the first n calls of the bulk load d on a new file
RECURSIVE bulk_load(_, _)
bulk_load(d, n) ==
    IF n = 0 THEN new(<<>>)
    ELSE write_data(bulk_load(d, n - 1), BulkKey(d, n - 1), 1).t

\* the pages the tree reaches from its root
live_nodes(t) ==
    subtree_leaves(t, t.root_page, t.num_pages)
        \cup subtree_internals(t, t.root_page, t.num_pages)

(* ------------------------------ routing ------------------------------- *)
\* the number i (from 0) of the child a descent for key takes at a node with
\* separators keys: the smallest i with key < keys[i], or Len(keys) if none
descent_index(keys, key) ==
    IF \E i \in 1..Len(keys) : key < keys[i]
    THEN (CHOOSE i \in 1..Len(keys) :
              key < keys[i] /\ \A j \in 1..(i - 1) : ~(key < keys[j])) - 1
    ELSE Len(keys)

(* ------------------------- borrow and merge --------------------------- *)
\* the separators that divide leaf a from leaf b: keys[i] of an internal node
\* whose child i leads to a and whose child i + 1 leads to b
dividing_separators(t, a, b) ==
    {read_internal_node(t, e[1]).keys[e[2]] :
        e \in {s \in child_slots(t) :
                  /\ s[2] <= Len(read_internal_node(t, s[1]).keys)
                  /\ a \in subtree_leaves(t, read_internal_node(t, s[1]).children[s[2]],
                                          t.num_pages)
                  /\ b \in subtree_leaves(t, read_internal_node(t, s[1]).children[s[2] + 1],
                                          t.num_pages)}}

\* delete_data(key) finds key in the leaf at page and leaves it under min_keys
erase_underflows(t, page, key) ==
    /\ index_of(read_leaf_node(t, page).keys, key) >= 0
    /\ Len(read_leaf_node(t, page).keys) - 1 < min_keys

\* the rebalancer will borrow from the left (right) list neighbour of page
borrows_left(t, page) ==
    /\ read_leaf_node(t, page).prev_leaf >= 0
    /\ Len(read_leaf_node(t, read_leaf_node(t, page).prev_leaf).keys) > min_keys

borrows_right(t, page) ==
    /\ ~borrows_left(t, page)
    /\ read_leaf_node(t, page).next_leaf >= 0
    /\ Len(read_leaf_node(t, read_leaf_node(t, page).next_leaf).keys) > min_keys

\* the rebalancer will merge page with a list neighbour
merges(t, page) ==
    /\ ~borrows_left(t, page)
    /\ ~borrows_right(t, page)
    /\ \/ read_leaf_node(t, page).prev_leaf >= 0
       \/ read_leaf_node(t, page).next_leaf >= 0

\* the left and the right leaf of the pair that is merged: the right one is
\* absorbed into the left one
merge_left_page(t, page) ==
    IF read_leaf_node(t, page).prev_leaf >= 0
    THEN read_leaf_node(t, page).prev_leaf ELSE page

merge_right_page(t, page) ==
    IF read_leaf_node(t, page).prev_leaf >= 0
    THEN page ELSE read_leaf_node(t, page).next_leaf

\* how many separator slots of the tree hold key
separator_count(t, key) ==
    Cardinality({s \in child_slots(t) :
                    /\ s[2] <= Len(read_internal_node(t, s[1]).keys)
                    /\ read_internal_node(t, s[1]).keys[s[2]] = key})

(* --------------------------- internal split --------------------------- *)
\* the separators that divide internal node a from internal node b
split_dividers(t, a, b) ==
    {read_internal_node(t, e[1]).keys[e[2]] :
        e \in {s \in child_slots(t) :
                  /\ s[2] <= Len(read_internal_node(t, s[1]).keys)
                  /\ a \in subtree_internals(t, read_internal_node(t, s[1]).children[s[2]],
                                             t.num_pages)
                  /\ b \in subtree_internals(t,
                               read_internal_node(t, s[1]).children[s[2] + 1],
                               t.num_pages)}}

(* ------------------------ internal rebalancing ------------------------ *)
\* slot s = <<parent, i>> holds an internal node that has a left and a right
\* sibling under the same parent
has_both_siblings(t, s) ==
    /\ s[2] > 1
    /\ s[2] < Len(read_internal_node(t, s[1]).children)
    /\ IsNodePage(t, read_internal_node(t, s[1]).children[s[2]])
    /\ ~is_leaf_page(t, read_internal_node(t, s[1]).children[s[2]])

\* the internal node at page has exactly min_internal keys in t and one of
\* its children is no longer in the tree t2: it has lost a separator
internal_underflows(t, t2, page) ==
    /\ Len(read_internal_node(t, page).keys) = min_internal
    /\ \E i \in 1..Len(read_internal_node(t, page).children) :
           read_internal_node(t, page).children[i] \notin live_nodes(t2)

(* ----------------------------- leaf chain ----------------------------- *)
\* the pages visited by following next_leaf from page for at most n steps;
\* the last element is -1 when the chain has ended within n steps
RECURSIVE next_chain(_, _, _)
next_chain(t, page, n) ==
    IF page < 0 THEN <<-1>>
    ELSE IF n = 0 THEN <<page>>
    ELSE IF ~(IsNodePage(t, page) /\ is_leaf_page(t, page)) THEN <<page>>
    ELSE <<page>> \o next_chain(t, read_leaf_node(t, page).next_leaf, n - 1)

NoRepeats(s) == \A i, j \in 1..Len(s) : i # j => s[i] # s[j]

\* the chain from page ends at -1 after at most num_pages leaves, all distinct
chain_ends(t, page) ==
    /\ next_chain(t, page, t.num_pages)[Len(next_chain(t, page, t.num_pages))] = -1
    /\ NoRepeats(next_chain(t, page, t.num_pages))

\* C11: after every completed put or erase, following next_leaf from the
\* leftmost leaf visits only leaves of the tree, all of them, and yields every
\* stored key exactly once, in strictly ascending order.
C11_walk(t, pages, keys) ==
    /\ SeqSet(pages) = subtree_leaves(t, t.root_page, t.num_pages)
    /\ StrictlyAscending(keys)
    /\ SeqSet(keys) = stored_keys

C11_pages(t, pages) == C11_walk(t, pages, walk_keys(t, pages, TRUE))

C11_NextLeafListsKeysAscending ==
    ~panicked =>
        C11_pages(Tree, next_walk(Tree, leftmost_leaf(Tree, root_page, num_pages),
                                  num_pages))

\* C12: after every completed put or erase, the leaf list is doubly linked:
\* the leaf after A in the list names A as its prev_leaf, the head has
\* prev_leaf = -1, and following prev_leaf from the rightmost leaf yields every
\* stored key in descending order.
C12_linked(t, a) ==
    read_leaf_node(t, a).next_leaf >= 0 =>
        /\ IsLeaf(t, read_leaf_node(t, a).next_leaf)
        /\ read_leaf_node(t, read_leaf_node(t, a).next_leaf).prev_leaf = a

C12_back(t, keys) ==
    /\ StrictlyDescending(keys)
    /\ SeqSet(keys) = stored_keys

C12_list(t, head, tail) ==
    /\ \A a \in subtree_leaves(t, t.root_page, t.num_pages) : C12_linked(t, a)
    /\ IsLeaf(t, head)
    /\ read_leaf_node(t, head).prev_leaf = -1
    /\ C12_back(t, walk_keys(t, prev_walk(t, tail, t.num_pages), FALSE))

C12_LeafListDoublyLinked ==
    ~panicked =>
        C12_list(Tree, leftmost_leaf(Tree, root_page, num_pages),
                 rightmost_leaf(Tree, root_page, num_pages))

\* C13: after every completed put or erase, every descent from the root along
\* live children ends at a leaf page, and all of them end at the same depth.
C13_LeavesAtEqualDepth ==
    ~panicked =>
        /\ IsNodePage(Tree, root_page)
        /\ Cardinality(tree_depths(Tree, root_page, num_pages)) = 1
        /\ -1 \notin tree_depths(Tree, root_page, num_pages)

\* C13 witness: the only erase so far has merged two leaves and then two
\* internal nodes of a tree of height three, and every leaf is at depth two.
C13_EraseMergedInternalNodes ==
    /\ ~panicked
    /\ ops = 1
    /\ last.op = "delete_data"
    /\ last.ret = <<TRUE>>
    /\ dead_leaves(Tree) # {}
    /\ dead_internals(Tree) # {}
    /\ tree_depths(Tree, root_page, num_pages) = {2}

\* C14 (as amended): after every completed put or erase, every non-root leaf
\* holds at least floor((LEAF_ORDER + 1) / 2) keys (18 of 36) and every non-root
\* internal node at least floor((INTERNAL_ORDER + 1) / 2) keys (170 of 340),
\* also immediately after a leaf split or an internal split.
C14_MinimumFillFloor ==
    ~panicked =>
        /\ \A p \in subtree_leaves(Tree, root_page, num_pages) \ {root_page} :
               Len(read_leaf_node(Tree, p).keys) >= LEAF_ORDER \div 2
        /\ \A p \in subtree_internals(Tree, root_page, num_pages) \ {root_page} :
               Len(read_internal_node(Tree, p).keys) >= INTERNAL_ORDER \div 2

\* C14 witness: the only erase so far has merged two leaves of a tree of height
\* three, and the tree has a non-root leaf and a non-root internal node that
\* hold exactly the minimum.
C14_MinimalNodesAfterMerge ==
    /\ ~panicked
    /\ ops = 1
    /\ last.op = "delete_data"
    /\ last.ret = <<TRUE>>
    /\ dead_leaves(Tree) # {}
    /\ \E p \in subtree_leaves(Tree, root_page, num_pages) \ {root_page} :
           Len(read_leaf_node(Tree, p).keys) = LEAF_ORDER \div 2
    /\ \E p \in subtree_internals(Tree, root_page, num_pages) \ {root_page} :
           Len(read_internal_node(Tree, p).keys) = INTERNAL_ORDER \div 2

\* C14 (as stated): after every completed put or erase, every non-root leaf
\* holds at least ceil((LEAF_ORDER + 1) / 2) keys (19 of 36) and every non-root
\* internal node at least ceil((INTERNAL_ORDER + 1) / 2) keys (171 of 340).
C14_MinimumFill ==
    ~panicked =>
        /\ \A p \in subtree_leaves(Tree, root_page, num_pages) \ {root_page} :
               Len(read_leaf_node(Tree, p).keys) >= ceil_half(LEAF_ORDER + 1)
        /\ \A p \in subtree_internals(Tree, root_page, num_pages) \ {root_page} :
               Len(read_internal_node(Tree, p).keys) >= ceil_half(INTERNAL_ORDER + 1)

\* C15: after every completed put or erase, every leaf reachable from the root
\* has strictly ascending keys (no key twice in a leaf) and data[i] is the
\* payload put for keys[i].
C15_leaf(node) ==
    /\ StrictlyAscending(node.keys)
    /\ Len(node.data) = Len(node.keys)
    /\ \A i \in 1..Len(node.keys) :
           node.keys[i] \in Keys /\ expected[node.keys[i]] = Some(node.data[i])

C15_LeavesSortedWithPayloads ==
    ~panicked =>
        \A p \in subtree_leaves(Tree, root_page, num_pages) :
            C15_leaf(read_leaf_node(Tree, p))

\* C16: after every completed put or erase, every internal node reachable from
\* the root has strictly ascending keys and one more live child than keys, every
\* child is the index of an allocated page other than the metadata page, and no
\* page is a child twice.
C16_node(t, node) ==
    /\ StrictlyAscending(node.keys)
    /\ Len(node.children) = Len(node.keys) + 1
    /\ \A i \in 1..Len(node.children) :
           node.children[i] >= 1 /\ node.children[i] < t.num_pages

C16_slots(t, slots) ==
    \A a \in slots, b \in slots :
        a # b => read_internal_node(t, a[1]).children[a[2]]
                     # read_internal_node(t, b[1]).children[b[2]]

C16_InternalNodesWellFormed ==
    ~panicked =>
        /\ \A p \in subtree_internals(Tree, root_page, num_pages) :
               C16_node(Tree, read_internal_node(Tree, p))
        /\ C16_slots(Tree, child_slots(Tree))

\* C17: after every completed put or erase, every leaf page has at most
\* LEAF_ORDER keys and every internal page at most INTERNAL_ORDER keys, and no
\* insert, borrow or merge has indexed past a key, payload or child array
\* (which in Rust panics).
C17_page(t, p) ==
    /\ t.mmap[p].layout = "leaf" =>
           Len(t.mmap[p].keys) <= LEAF_ORDER /\ Len(t.mmap[p].data) <= LEAF_ORDER
    /\ t.mmap[p].layout = "internal" =>
           /\ Len(t.mmap[p].keys) <= INTERNAL_ORDER
           /\ Len(t.mmap[p].children) <= INTERNAL_ORDER + 1

C17_NodesWithinCapacity ==
    /\ ~panicked
    /\ \A p \in DOMAIN mmap : C17_page(Tree, p)

\* C17 witness: the only erase so far has merged two leaves into one that
\* holds all but one of the keys a leaf can hold.
C17_MergeFilledLeaf ==
    /\ ~panicked
    /\ ops = 1
    /\ last.op = "delete_data"
    /\ last.ret = <<TRUE>>
    /\ dead_leaves(Tree) # {}
    /\ \E p \in subtree_leaves(Tree, root_page, num_pages) :
           Len(read_leaf_node(Tree, p).keys) = LEAF_ORDER - 1

\* C18: inserting LEAF_ORDER (36) distinct keys into an empty tree causes no
\* split; a put of a new key that lands in a leaf holding LEAF_ORDER keys
\* splits it so that the original leaf keeps the ceil((LEAF_ORDER + 1) / 2)
\* (19) smallest of the LEAF_ORDER + 1 entries, the newly allocated right leaf
\* takes the others (18), and the separator in the parent is the first key of
\* the new leaf, the 20th smallest.
C18_no_split(t) ==
    /\ t.root_page = 1
    /\ t.num_pages = 2
    /\ IsLeaf(t, 1)
    /\ SeqSet(read_leaf_node(t, 1).keys) = stored_keys
    /\ Len(read_leaf_node(t, 1).keys) = loaded

C18_separator(parent, new_page, split_key) ==
    \E i \in 1..Len(parent.keys) :
        parent.keys[i] = split_key /\ parent.children[i + 1] = new_page

C18_halves(t2, page, new_page, entries, mid) ==
    /\ IsLeaf(t2, page)
    /\ IsLeaf(t2, new_page)
    /\ read_leaf_node(t2, page).keys = SubSeq(entries, 1, mid)
    /\ read_leaf_node(t2, new_page).keys = SubSeq(entries, mid + 1, Len(entries))
    /\ Len(read_leaf_node(t2, new_page).keys) = LEAF_ORDER + 1 - mid
    /\ find_parent(t2, new_page) # None
    /\ C18_separator(read_internal_node(t2, find_parent(t2, new_page)[1]),
                     new_page, entries[mid + 1])

C18_put(t, found, key) ==
    (/\ found # None
     /\ Len(read_leaf_node(t, found[1]).keys) = LEAF_ORDER
     /\ StrictlyAscending(read_leaf_node(t, found[1]).keys))
        => C18_halves(write_data(t, key, 1).t, found[1], t.num_pages,
                      asc_keys(SeqSet(read_leaf_node(t, found[1]).keys) \cup {key}),
                      ceil_half(LEAF_ORDER + 1))

C18_SplitKeepsNineteenLeft ==
    ~panicked =>
        /\ (ops = 0 /\ loaded <= LEAF_ORDER) => C18_no_split(Tree)
        /\ \A key \in Keys :
               expected[key] = None => C18_put(Tree, find_leaf(Tree, key), key)

\* C19: from an empty tree, after inserting LEAF_ORDER + 1 (37) distinct keys,
\* which splits the root leaf once, and then erasing the key inserted last, the
\* tree is again a single root leaf holding the remaining LEAF_ORDER keys.
C19_single_leaf(t) ==
    /\ IsLeaf(t, t.root_page)
    /\ Len(read_leaf_node(t, t.root_page).keys) = LEAF_ORDER
    /\ SeqSet(read_leaf_node(t, t.root_page).keys) = stored_keys
    /\ read_leaf_node(t, t.root_page).next_leaf = -1
    /\ read_leaf_node(t, t.root_page).prev_leaf = -1

C19_EraseLastReturnsToOneLeaf ==
    (/\ ~panicked
     /\ loaded = LEAF_ORDER + 1
     /\ ops = 1
     /\ last.op = "delete_data"
     /\ last.key = BulkKey(dir, LEAF_ORDER))
        => C19_single_leaf(Tree)

\* C20: in every state of the tree, scan(lo, hi) with lo > hi returns the
\* empty sequence.
C20_ReversedRangeIsEmpty ==
    ~panicked =>
        \A lo \in Keys \cup ScanEnds, hi \in ScanEnds :
            lo > hi => read_range_data(Tree, lo, hi) = <<>>

\* C20 witness: a scan with lo > hi has returned nothing although the tree
\* stores keys between hi and lo and has more than one leaf.
C20_ReversedScanOverStoredKeys ==
    /\ ~panicked
    /\ last.op = "read_range_data"
    /\ last.key > last.val
    /\ last.ret = <<>>
    /\ \E k \in stored_keys : last.val <= k /\ k <= last.key
    /\ Cardinality(subtree_leaves(Tree, root_page, num_pages)) > 1

\* C21: opening a file that does not exist yet yields an index of exactly two
\* pages: page 0 holds the metadata (magic BPTREEv1, root = 1, page count = 2)
\* and page 1 holds an empty leaf (no keys, next_leaf = prev_leaf = -1) that
\* is the root.
C21_OpenCreatesTwoPages ==
    last.op = "new" =>
        /\ ~panicked
        /\ DOMAIN mmap = 0..1
        /\ DOMAIN file = 0..1
        /\ num_pages = 2
        /\ root_page = 1
        /\ mmap[0].layout = "meta"
        /\ mmap[0].magic = "BPTREEv1"
        /\ mmap[0].root = 1
        /\ mmap[0].num_pages = 2
        /\ mmap[1].layout = "leaf"
        /\ mmap[1].byte0 = 1
        /\ read_leaf_node(Tree, 1).keys = <<>>
        /\ read_leaf_node(Tree, 1).data = <<>>
        /\ read_leaf_node(Tree, 1).next_leaf = -1
        /\ read_leaf_node(Tree, 1).prev_leaf = -1

\* C21 witness: the index as BPlusTree::new() left it on a new file, before
\* any call: the descent for any key ends at the root leaf, which is empty.
C21_FreshIndexOpened ==
    /\ last.op = "new"
    /\ loaded = 0
    /\ ops = 0
    /\ find_leaf(Tree, 1) = Some(root_page)
    /\ tree_entries(Tree) = {}

\* C22: after open and after every completed put, erase or flush, the root
\* page index and the page count stored in page 0 of the mapping equal the
\* in-memory root_page and page count.
C22_MetadataTracksRootAndCount ==
    ~panicked =>
        /\ mmap[0].layout = "meta"
        /\ mmap[0].magic = "BPTREEv1"
        /\ mmap[0].root = (IF root_page < 0 THEN U64_MAX ELSE root_page)
        /\ mmap[0].num_pages = num_pages

\* C22 witness: the second of two erases on a two-leaf tree merged the leaves
\* and collapsed the root, and page 0 names the leaf that is the root now.
C22_RootCollapseRecorded ==
    /\ ~panicked
    /\ loaded = LEAF_ORDER + 1
    /\ ops = 2
    /\ Cardinality(erased) = 2
    /\ last.op = "delete_data"
    /\ dead_internals(Tree) # {}
    /\ IsLeaf(Tree, root_page)
    /\ mmap[0].root = root_page

\* C23: after open and after every completed put or erase (the erase of the
\* last key included), the root page is -1 or the index of a node page: at
\* least 1, below the page count, first byte 0 or 1; and no put reads a page
\* through a root of -1.
C23_RootIsValidNode ==
    /\ ~panicked
    /\ \/ root_page = -1
       \/ /\ root_page >= 1
          /\ root_page < num_pages
          /\ root_page \in DOMAIN mmap
          /\ mmap[root_page].layout \in {"leaf", "internal"}
          /\ mmap[root_page].byte0 \in {0, 1}
    /\ \A key \in Keys : ~write_data(Tree, key, 1).t.panicked

\* C23 witness: an erase has removed the last key of the tree; the root is
\* still a node page, an empty leaf.
C23_ErasedLastKey ==
    /\ ~panicked
    /\ loaded >= 1
    /\ last.op = "delete_data"
    /\ last.ret = <<TRUE>>
    /\ tree_entries(Tree) = {}
    /\ IsLeaf(Tree, root_page)

\* C24: the page count never decreases under any operation; an allocation
\* returns the index equal to the page count before it and raises the count
\* by exactly one; the pages a put adds to the tree are exactly the indices
\* from the old page count up to the new one, so no index is handed out
\* twice, also after merges and root collapses have vacated pages.
C24_PagesOnlyAppended ==
    [][/\ num_pages' >= num_pages
       /\ DOMAIN mmap \subseteq DOMAIN mmap'
       /\ allocate_page(Tree).ret = num_pages
       /\ allocate_page(Tree).t.num_pages = num_pages + 1
       /\ last'.op = "write_data" =>
              live_nodes(Tree') \ live_nodes(Tree) = num_pages..(num_pages' - 1)]_vars

\* C24 witness: an erase merged two leaves and vacated a page, and the put
\* after it split a leaf: the page count is above that of the loaded index
\* and the vacated page is still outside the tree.
C24_AllocatedAfterMerge ==
    /\ ~panicked
    /\ ops = 2
    /\ Cardinality(erased) = 1
    /\ last.op = "write_data"
    /\ dead_leaves(Tree) # {}
    /\ num_pages > bulk_load(dir, loaded).num_pages

\* C25 as stated: no call other than flush and the release of the facade
\* changes a page of the file: put and erase never flush the mapping, on any
\* path, the paths that allocate a page included.
C25_OnlyFlushAndReleaseWriteFile ==
    [][last'.op \notin {"flush", "reopen"} =>
           \A p \in DOMAIN file : file'[p] = file[p]]_vars

\* C25: put and erase flush the mapping to disk only on a path that allocates
\* a page (the file is flushed before it is grown and mapped again); otherwise
\* the mapping is flushed only by an explicit flush or when the facade is
\* released.  An erase never allocates, so it never changes the file.
C25_FlushOnlyOnGrowth ==
    [][/\ (last'.op \notin {"flush", "reopen"} /\ num_pages' = num_pages) => file' = file
       /\ last'.op = "delete_data" => file' = file]_vars

\* C25 witness: during the bulk load, without any flush or release, a put that
\* allocated a page has carried the root leaf of the mapping into the file.
C25_SplitFlushedLeaf ==
    /\ ~panicked
    /\ ops = 0
    /\ last.op = "write_data"
    /\ num_pages > 2
    /\ file[1].layout = "leaf"

\* C26: at every internal node of the tree, find_leaf descends for a key to
\* children[i] with i the smallest index such that key < keys[i] (the last
\* child if there is none): a key equal to a separator keys[i] goes to the
\* right child children[i + 1].
C26_DescentTakesRightOfEqualSeparator ==
    ~panicked =>
        \A key \in Keys :
            \A p \in subtree_internals(Tree, root_page, num_pages) :
                find_leaf_pos(read_internal_node(Tree, p).keys, key)
                    = descent_index(read_internal_node(Tree, p).keys, key)

\* C27: after an erase has made leaf L borrow an entry from its left or right
\* list neighbour S, the separator that divides S and L in the tree is the new
\* first key of the right-hand leaf of the pair, also when S and L have
\* different parents.
C27_erase(t, t2, page) ==
    /\ borrows_left(t, page) =>
           dividing_separators(t2, read_leaf_node(t, page).prev_leaf, page)
               = {read_leaf_node(t2, page).keys[1]}
    /\ borrows_right(t, page) =>
           dividing_separators(t2, page, read_leaf_node(t, page).next_leaf)
               = {read_leaf_node(t2, read_leaf_node(t, page).next_leaf).keys[1]}

C27_found(t, found, key) ==
    (found # None /\ erase_underflows(t, found[1], key))
        => C27_erase(t, delete_data(t, key).t, found[1])

C27_BorrowUpdatesDividingSeparator ==
    ~panicked => \A key \in Keys : C27_found(Tree, find_leaf(Tree, key), key)

\* C28: after an erase has merged two leaves, every other key of both leaves
\* is still found by get, and the parent entry that was removed is the
\* separator that divided the pair together with the pointer to the absorbed
\* leaf, also when the absorbed leaf is children[0] of its parent and the
\* survivor belongs to a different parent.
C28_keys_found(t, t2, a, b, key) ==
    \A k \in (SeqSet(read_leaf_node(t, a).keys) \cup SeqSet(read_leaf_node(t, b).keys))
                 \ {key} :
        read_data(t2, k) # None

C28_entry_removed(t, t2, a, b) ==
    /\ b \notin live_nodes(t2)
    /\ a \in live_nodes(t2)
    /\ \E s \in dividing_separators(t, a, b) :
           \A k \in Keys :
               separator_count(t2, k)
                   = separator_count(t, k) - (IF k = s THEN 1 ELSE 0)

C28_found(t, found, key) ==
    (/\ found # None
     /\ erase_underflows(t, found[1], key)
     /\ merges(t, found[1]))
        => /\ C28_keys_found(t, delete_data(t, key).t,
                  merge_left_page(t, found[1]), merge_right_page(t, found[1]), key)
           /\ C28_entry_removed(t, delete_data(t, key).t,
                  merge_left_page(t, found[1]), merge_right_page(t, found[1]))

C28_MergeKeepsKeysAndRemovesDivider ==
    ~panicked => \A key \in Keys : C28_found(Tree, find_leaf(Tree, key), key)

\* C29: when the insertion of a separator takes an internal node P to
\* INTERNAL_ORDER + 1 (341) keys, P is split at mid = n / 2: the left node
\* keeps keys[0..mid] and children[0..=mid], the new right node gets
\* keys[mid+1..n] and children[mid+1..=n], keys[mid] is passed up and is in
\* neither half, and each of the n + 1 child pointers is in exactly one half.
\* old is P before the put; left, right and the key pk passed up are read
\* after it: left keys, pk, right keys in this order are the keys of old with
\* one key inserted, so slot mid is in neither half, and left and right
\* children are the children of old with one child inserted.
C29_halves(old, left, pk, right) ==
    /\ Len(left.keys) = (INTERNAL_ORDER + 1) \div 2
    /\ Len(left.children) = Len(left.keys) + 1
    /\ Len(right.keys) = INTERNAL_ORDER - Len(left.keys)
    /\ Len(right.children) = Len(right.keys) + 1
    /\ \E i \in 0..INTERNAL_ORDER :
           /\ RemoveAt(left.keys \o <<pk>> \o right.keys, i) = old.keys
           /\ RemoveAt(left.children \o right.children, i + 1) = old.children
    /\ Cardinality(SeqSet(left.children \o right.children)) = INTERNAL_ORDER + 2

C29_node(t, t2, p) ==
    (/\ Len(read_internal_node(t, p).keys) = INTERNAL_ORDER
     /\ Len(read_internal_node(t2, p).keys) < INTERNAL_ORDER)
        => \E r \in subtree_internals(t2, t2.root_page, t2.num_pages) :
               /\ r >= t.num_pages
               /\ \E pk \in split_dividers(t2, p, r) :
                      C29_halves(read_internal_node(t, p), read_internal_node(t2, p),
                                 pk, read_internal_node(t2, r))

C29_put(t, t2) ==
    \A p \in subtree_internals(t, t.root_page, t.num_pages) : C29_node(t, t2, p)

C29_InternalSplitAtMid ==
    ~panicked => \A key \in Keys : C29_put(Tree, write_data(Tree, key, 1).t)

\* C29 witness: the last put of the bulk load split an internal node that
\* held INTERNAL_ORDER keys before it.
C29_BulkPutSplitInternal ==
    /\ ~panicked
    /\ ops = 0
    /\ loaded >= 1
    /\ last.op = "write_data"
    /\ \E p \in subtree_internals(bulk_load(dir, loaded - 1),
                                  bulk_load(dir, loaded - 1).root_page,
                                  bulk_load(dir, loaded - 1).num_pages) :
           /\ Len(read_internal_node(bulk_load(dir, loaded - 1), p).keys) = INTERNAL_ORDER
           /\ Len(read_internal_node(Tree, p).keys) = (INTERNAL_ORDER + 1) \div 2

\* C30: when an erase removes the last separator of the internal root, the
\* sole remaining child becomes the new root and the metadata names it (and an
\* erase changes the root in no other way); after every completed erase an
\* internal root holds at least one key; and once every key has been erased
\* the root of the tree is a single leaf.
C30_RootCollapsesToSoleChild ==
    [][last'.op = "delete_data" =>
           /\ ~panicked'
           /\ (/\ ~is_leaf_page(Tree, root_page)
               /\ Len(read_internal_node(Tree', root_page).keys) = 0)
                  => /\ Len(read_internal_node(Tree', root_page).children) = 1
                     /\ root_page' = read_internal_node(Tree', root_page).children[1]
                     /\ IsNodePage(Tree', root_page')
                     /\ mmap'[0].root = root_page'
           /\ root_page' # root_page
                  => /\ ~is_leaf_page(Tree, root_page)
                     /\ Len(read_internal_node(Tree', root_page).keys) = 0
           /\ ~is_leaf_page(Tree', root_page')
                  => Len(read_internal_node(Tree', root_page').keys) >= 1
           /\ stored_keys' = {}
                  => /\ IsLeaf(Tree', root_page')
                     /\ live_nodes(Tree') = {root_page'}]_vars

\* C30 witness: every key of a bulk load that had built internal nodes has
\* been erased; the internal nodes are outside the tree and the root is a leaf.
C30_DrainedToRootLeaf ==
    /\ ~panicked
    /\ loaded > LEAF_ORDER
    /\ last.op = "delete_data"
    /\ stored_keys = {}
    /\ Cardinality(dead_internals(Tree)) > 1
    /\ IsLeaf(Tree, root_page)
    /\ mmap[0].root = root_page

\* C31: when an erase makes an internal node P underflow, and the left sibling
\* of P holds no more than the minimum number of keys while the right sibling
\* holds more (here: is full), P is repaired by borrowing one key and child
\* from the right sibling through the parent, not by a merge: P stays in the
\* tree with the minimum number of keys and the right sibling has one key less.
C31_repair(t, t2, left, p, right) ==
    (/\ Len(read_internal_node(t, left).keys) <= min_internal
     /\ Len(read_internal_node(t, right).keys) = INTERNAL_ORDER
     /\ internal_underflows(t, t2, p))
        => /\ p \in live_nodes(t2)
           /\ Len(read_internal_node(t2, p).keys) = min_internal
           /\ Len(read_internal_node(t2, right).keys) = INTERNAL_ORDER - 1

C31_slot(t, t2, s) ==
    has_both_siblings(t, s)
        => C31_repair(t, t2,
                      read_internal_node(t, s[1]).children[s[2] - 1],
                      read_internal_node(t, s[1]).children[s[2]],
                      read_internal_node(t, s[1]).children[s[2] + 1])

C31_BorrowsFromRightBeforeMerging ==
    [][last'.op = "delete_data" =>
           \A s \in child_slots(Tree) : C31_slot(Tree, Tree', s)]_vars

\* C32: whenever the file is grown by a page, the mapping is flushed before the
\* file is resized and mapped again: every page that existed before reads the
\* same in the new mapping as it was last written (page 0 up to the remap,
\* after which it receives the metadata of the new page count), the file holds
\* the same bytes, and the added page is zeroed.
C32_grown(t, g) ==
    /\ DOMAIN g.mmap = 0..NumPagesOf(t.mmap)
    /\ \A p \in DOMAIN t.mmap \ {0} : g.mmap[p] = t.mmap[p] /\ g.file[p] = t.mmap[p]
    /\ g.mmap[0] = write_metadata([t EXCEPT !.num_pages = NumPagesOf(t.mmap) + 1]).mmap[0]
    /\ g.file[0] = t.mmap[0]
    /\ g.mmap[NumPagesOf(t.mmap)] = ZeroPage

C32_GrowthFlushesBeforeRemap ==
    ~panicked => C32_grown(Tree, ensure_file_size(Tree, NumPagesOf(mmap) + 1))

\* C32 witness: a put has grown the file while an internal node written since
\* the last flush was only in the mapping; the growth carried it to the file.
C32_GrewOverUnflushedNode ==
    /\ ~panicked
    /\ last.op = "write_data"
    /\ num_pages >= 4
    /\ \E p \in DOMAIN file : file[p].layout = "internal" /\ file[p] # mmap[p]

\* C33: an erase that answers NotFound, every get and every scan leave the
\* whole index state as it was: no page of the mapping or of the file, nor the
\* root page, nor the page count differs after the call.
C33_ReadsAndMissesChangeNothing ==
    [][(\/ last'.op \in {"read_data", "read_range_data"}
        \/ (last'.op = "delete_data" /\ ~panicked' /\ last'.ret = <<FALSE>>))
           => Tree' = Tree]_vars

\* C33 witness: an erase has answered NotFound on a loaded index whose mapping
\* holds pages not yet flushed to the file.
C33_ErasedAbsentKey ==
    /\ ~panicked
    /\ last.op = "delete_data"
    /\ last.ret = <<FALSE>>
    /\ loaded >= 1
    /\ mmap # file

\* C34: in every reachable state, the state left behind by a put whose page
\* allocation failed with an I/O error included, every page index below the
\* in-memory page count lies inside the mapped file.
C34_PageCountWithinMapping ==
    ~panicked => \A p \in 0..(num_pages - 1) : p \in DOMAIN mmap

\* C35: get and scan agree in every reachable state: for every key k, get(k)
\* returns a payload v exactly when scan(k, k) returns the one-element
\* sequence <<v>>, and NotFound exactly when scan(k, k) is empty.
C35_agree(got, scanned) ==
    /\ got # None => scanned = <<got[1]>>
    /\ got = None => scanned = <<>>

C35_GetAgreesWithPointScan ==
    ~panicked =>
        \A key \in Keys : C35_agree(read_data(Tree, key), read_range_data(Tree, key, key))

\* C36: in every state reached by puts and erases, the next_leaf chain from
\* every leaf of the tree, and so from every leaf find_leaf can return, visits
\* no page twice and ends at -1 within num_pages leaves; this is so also after
\* merges have left vacated leaf pages behind.
C36_LeafChainEnds ==
    ~panicked =>
        /\ \A p \in subtree_leaves(Tree, root_page, num_pages) : chain_ends(Tree, p)
        /\ \A key \in Keys \cup {INT_MIN, INT_MAX} :
               find_leaf(Tree, key) # None => chain_ends(Tree, find_leaf(Tree, key)[1])

\* C36 witness: an erase has merged two leaves, a vacated leaf page is left
\* behind, and the tree still has a chain of at least two leaves.
C36_ChainAfterMerge ==
    /\ ~panicked
    /\ last.op = "delete_data"
    /\ dead_leaves(Tree) # {}
    /\ Cardinality(subtree_leaves(Tree, root_page, num_pages)) >= 2

\* C37: under every interleaving of threads calling writeData, readData,
\* readDataInto, deleteData and readRangeData, at most one tree is ever
\* created and stored in the process-wide slot, no two threads are inside the
\* mutex at once, and every step that creates the tree, changes it or runs a
\* tree operation to its end is taken by the thread that holds the mutex
\* before and after the step.
C37_critical == {"init_locked", "init_done", "op_locked", "op_done"}

C37_state ==
    /\ installs <= 1
    /\ (slot = "Some") <=> (installs = 1)
    /\ \A t \in Threads : pc[t] \in C37_critical <=> lock = t
    /\ \A t, u \in Threads : (pc[t] \in C37_critical /\ pc[u] \in C37_critical) => t = u

C37_step ==
    (\/ Tree' # Tree
     \/ slot' # slot
     \/ installs' # installs
     \/ \E t \in Threads : pc'[t] = "op_done" /\ pc[t] # "op_done")
        => /\ lock # 0
           /\ lock' = lock
           /\ pc[lock] \in {"init_locked", "op_locked"}

C37_OneTreeAndOneCallerAtATime == [](C37_state) /\ [][C37_step]_vars

\* C37 witness: the tree has been installed once, one thread has run a
\* writeData on it and still holds the mutex, and another thread that has been
\* through ensure_tree_initialized is waiting for the mutex.
C37_CallerWaitsForWriter ==
    /\ installs = 1
    /\ \E t, u \in Threads :
           /\ t # u
           /\ lock = t
           /\ pc[t] = "op_done"
           /\ call[t].fn = "writeData"
           /\ pc[u] = "op_wait"
====
